---- MODULE Spec2Model ----
(***************************************************************************)
(* A model of the narrative runtime of nagyml-2: templated strings, the    *)
(* choice gate, the player's reversible history and the game loop that     *)
(* drives them.  Strings are sequences of one-character strings so that    *)
(* the template scanner can be modelled character by character.            *)
(* Option<T> is a sequence of length 0 (None) or 1 (Some); Result<T> is a  *)
(* record [ok, val].                                                       *)
(***************************************************************************)
EXTENDS Naturals, Sequences, FiniteSets, TLC

VARIABLES
    player,        \* the Player record (core/player.rs)
    pc,            \* position of the game loop: "visit", "input", "done", "crashed"
    text_context,  \* the TextContext snapshot built when the prompt was visited
    model,         \* the PromptModel computed when the prompt was visited
    choices,       \* the usable choices computed when the prompt was visited
    next_prompt,   \* the path of the prompt that was visited
    last,          \* observation: the last operation and its outcome
    backs,         \* observation: successful back commands since the last choice
    evicted,       \* observation: whether the cap has evicted an entry so far
    audio,         \* the audio players of the Audio resource, by channel
    odd_jumps,     \* observation: whether the loop has made an odd number of
                   \* Redirect iterations since it last left a visit
    template_string,  \* the content of the TemplatableString being resolved
    template_result,  \* the resolution applied to it and its result, if any
    checked_prompt,   \* the Prompt being validated
    validation,       \* the result of its validation, if any
    drp_mode,         \* settings.drp.mode of the manifest
    presence,         \* what after_choice found as the rich presence state, if
                      \* it was applied on its own
    quit              \* InputController.quit: whether a quit signal has armed
                      \* the controller

vars == <<player, pc, text_context, model, choices, next_prompt, last,
          backs, evicted, audio, odd_jumps, template_string, template_result,
          checked_prompt, validation, drp_mode, presence, quit>>

----------------------------------------------------------------------------
(* Bounds of the model *)

\* the configured settings.history.size of the modelled game
HistorySize == 4
\* longest variable value a choice may produce in the model
MaxValueLen == 11
\* most log lines a player may hold in the model
MaxLogLen == 3

----------------------------------------------------------------------------
(* Options, results, maps *)

None == <<>>
Some(x) == <<x>>
IsSome(o) == Len(o) = 1
IsNone(o) == Len(o) = 0
Unwrap(o) == o[1]
UnwrapOr(o, d) == IF IsSome(o) THEN o[1] ELSE d

Ok(v) == [ok |-> TRUE, val |-> v]
Err == [ok |-> FALSE, val |-> <<>>]

EmptyMap == [n \in {} |-> <<>>]
MapGet(m, k) == IF k \in DOMAIN m THEN Some(m[k]) ELSE None
MapInsert(m, k, v) == [n \in (DOMAIN m) \cup {k} |-> IF n = k THEN v ELSE m[n]]
MapRemove(m, k) == [n \in (DOMAIN m) \ {k} |-> m[n]]
\* HashMap::extend: the entries of `more` override those of `m`
MapExtend(m, more) ==
    [n \in (DOMAIN m) \cup (DOMAIN more) |-> IF n \in DOMAIN more THEN more[n] ELSE m[n]]

----------------------------------------------------------------------------
(* Strings *)

S_a == <<"a">>
S_x == <<"x">>
S_y == <<"y">>
S_g == <<"g">>
S_n == <<"n">>
S_en == <<"e", "n">>
S_fr == <<"f", "r">>
S_c == <<"c">>
S_w == <<"w">>
S_true == <<"t", "r", "u", "e">>
S_false == <<"f", "a", "l", "s", "e">>
DEFAULT_VALUE == <<"U", "N", "D", "E", "F", "I", "N", "E", "D">>
NAGE_PREFIX == <<"n", "a", "g", "e", ":">>

Contains(s, c) == \E i \in 1..Len(s) : s[i] = c

\* char::to_lowercase on the letters the modelled content uses
LowerChar(c) ==
    CASE c = "N" -> "n" [] c = "A" -> "a" [] c = "G" -> "g" [] c = "E" -> "e"
      [] c = "L" -> "l" [] OTHER -> c
ToLowercase(s) == [i \in 1..Len(s) |-> LowerChar(s[i])]

\* str::strip_prefix
StripPrefix(s, p) ==
    IF Len(s) >= Len(p) /\ SubSeq(s, 1, Len(p)) = p
    THEN Some(SubSeq(s, Len(p) + 1, Len(s)))
    ELSE None

\* index of the first occurrence of c in s, 0 when there is none
RECURSIVE IndexOf(_, _, _)
IndexOf(s, c, i) ==
    IF i > Len(s) THEN 0
    ELSE IF s[i] = c THEN i
    ELSE IndexOf(s, c, i + 1)

\* str::parse::<bool>: exactly "true" and "false" parse
ParseBool(s) ==
    IF s = S_true THEN Ok(TRUE)
    ELSE IF s = S_false THEN Ok(FALSE)
    ELSE Err

----------------------------------------------------------------------------
(* Static game content read by the template resolver *)

S_bad == <<"b", "a", "d">>
S_one == <<"o", "n", "e">>
S_lang == <<"l", "a", "n", "g">>
S_game_name == <<"g", "a", "m", "e", "_", "n", "a", "m", "e">>
S_game_authors == <<"g", "a", "m", "e", "_", "a", "u", "t", "h", "o", "r", "s">>
S_game_version == <<"g", "a", "m", "e", "_", "v", "e", "r", "s", "i", "o", "n">>

\* metadata of the modelled manifest
MetadataName == <<"G">>
MetadataAuthors == <<"A">>
MetadataVersion == <<"1">>

\* the script files of the modelled game: `one` evaluates to "a", `no` to
\* "false", `sp` to the variable span "<a>", `bad` fails to evaluate, `rd`
\* looks the value of the variable a up in a table whose one key is "b" and
\* fails to evaluate for any other value (a nil result is no string); any
\* other name is not a script file
S_sp == <<"s", "p">>
S_rd == <<"r", "d">>
ScriptFiles == {S_one, <<"n", "o">>, S_sp, S_bad, S_rd}
ScriptEval(file, func, ctx) ==
    IF file = S_one THEN Ok(S_a)
    ELSE IF file = <<"n", "o">> THEN Ok(S_false)
    ELSE IF file = S_sp THEN Ok(<<"<", "a", ">">>)
    ELSE IF file = S_rd
    THEN IF MapGet(ctx.variables, <<"a">>) = Some(<<"b">>) THEN Ok(<<"a">>) ELSE Err
    ELSE Err

\* the translation files of the modelled game, by language code
Translations == (S_en :> (<<"k">> :> <<"<", "g", ">">>))
                @@ (S_fr :> (<<"k">> :> <<"<", "n", ">">>))

\* the audio resource of the modelled game: the channels of settings.channels,
\* all enabled, and the loaded sound files, one per language
AudioPlayers == {S_c}
Sounds == {S_en, S_fr}

\* a TextContext: owned snapshots of the player's notes, variables and language
TextContextNew(notes, variables, lang) ==
    [notes |-> notes, variables |-> variables, lang |-> lang]

TextContextOf(p) == TextContextNew(p.notes, p.variables, p.lang)

lang_file(lang) == MapGet(Translations, lang)

----------------------------------------------------------------------------
(* text/templating.rs, text/context.rs, core/scripts.rs *)

file_components(file) ==
    LET i == IndexOf(file, ":", 1)
    IN  IF i = 0 THEN [file |-> file, func |-> None]
        ELSE [file |-> SubSeq(file, 1, i - 1),
              func |-> Some(SubSeq(file, i + 1, Len(file)))]

\* a Scripts::get that fails on a name that is no script file
ScriptsGet_MissingIsError(file, ctx) ==
    LET c == file_components(file)
    IN  IF c.file \notin ScriptFiles THEN Err
        ELSE LET r == ScriptEval(c.file, c.func, ctx)
             IN  IF r.ok THEN Ok(Some(r.val)) ELSE Err

\* Scripts::get: Ok(None) for a name that is no script file, the evaluation's
\* result otherwise
ScriptsGet(file, ctx) ==
    LET c == file_components(file)
    IN  IF c.file \notin ScriptFiles THEN Ok(None)
        ELSE LET r == ScriptEval(c.file, c.func, ctx)
             IN  IF r.ok THEN Ok(Some(r.val)) ELSE Err

global_variable(var, ctx) ==
    LET stripped == StripPrefix(ToLowercase(var), NAGE_PREFIX)
    IN  IF IsNone(stripped) THEN None
        ELSE LET name == Unwrap(stripped)
             IN  CASE name = S_game_name -> Some(MetadataName)
                   [] name = S_game_authors -> Some(MetadataAuthors)
                   [] name = S_game_version -> Some(MetadataVersion)
                   [] name = S_lang -> Some(ctx.lang)
                   [] OTHER -> None

\* a fill_variable that looks in the player's variables first
fill_variable_PlayerFirst(var, variables, ctx) ==
    LET v == MapGet(variables, var)
    IN  IF IsSome(v) THEN v ELSE global_variable(var, ctx)

fill_variable(var, variables, ctx) ==
    LET g == global_variable(var, ctx)
    IN  IF IsSome(g) THEN g ELSE MapGet(variables, var)

\* the filler closure handed to `template`: the script pass or the variable pass
Filler(pass, var, ctx) ==
    IF pass = "script" THEN ScriptsGet(var, ctx)
    ELSE Ok(fill_variable(var, ctx.variables, ctx))

\* the scanning loop of `template`, from index i on; last_opener 0 is None
RECURSIVE TemplateLoop(_, _, _, _, _, _, _, _)
TemplateLoop(content, i, before, after, pass, ctx, result, last_opener) ==
    IF i > Len(content) THEN Ok(result)
    ELSE IF content[i] = before
    THEN TemplateLoop(content, i + 1, before, after, pass, ctx, result, i)
    ELSE IF content[i] = after
    THEN IF last_opener # 0
         THEN LET Filled(f) ==
                      IF ~f.ok THEN Err
                      ELSE TemplateLoop(content, i + 1, before, after, pass, ctx,
                                        result \o UnwrapOr(f.val, DEFAULT_VALUE), 0)
              IN  Filled(Filler(pass, SubSeq(content, last_opener + 1, i - 1), ctx))
         ELSE TemplateLoop(content, i + 1, before, after, pass, ctx, result, 0)
    ELSE TemplateLoop(content, i + 1, before, after, pass, ctx,
                      IF last_opener = 0 THEN Append(result, content[i]) ELSE result,
                      last_opener)

template(content, before, after, pass, ctx) ==
    IF ~Contains(content, before) THEN Ok(content)
    ELSE TemplateLoop(content, 1, before, after, pass, ctx, <<>>, 0)

lang_file_content(content, file) ==
    IF IsSome(file) /\ content \in DOMAIN Unwrap(file) THEN Unwrap(file)[content]
    ELSE content

\* a fill that runs the variable pass before the script pass
fill_VariablesFirst(content, ctx) ==
    LET ScriptPass(interpolated) ==
            IF ~interpolated.ok THEN Err
            ELSE template(interpolated.val, "(", ")", "script", ctx)
    IN  ScriptPass(template(lang_file_content(content, lang_file(ctx.lang)),
                            "<", ">", "var", ctx))

\* TemplatableString::fill: the translation, then the script pass, then the
\* variable pass
fill(content, ctx) ==
    LET VariablePass(scripted) ==
            IF ~scripted.ok THEN Err
            ELSE template(scripted.val, "<", ">", "var", ctx)
    IN  VariablePass(template(lang_file_content(content, lang_file(ctx.lang)),
                              "(", ")", "script", ctx))

\* TemplatableValue<bool>: exactly one of value and template is populated
TValue(b) == [value |-> Some(b), template |-> None]
TTemplate(s) == [value |-> None, template |-> Some(s)]

\* TemplatableValue::<bool>::get_value
get_value(tv, ctx) ==
    IF IsSome(tv.value) THEN Ok(Unwrap(tv.value))
    ELSE LET Parse(filled) == IF ~filled.ok THEN Err ELSE ParseBool(filled.val)
         IN  Parse(fill(Unwrap(tv.template), ctx))

----------------------------------------------------------------------------
(* core/choice.rs: note and variable entries, history entries, the gate *)

\* NoteEntry::new
NoteEntryNew(name, take, ctx) ==
    LET Entry(value) ==
            IF ~value.ok THEN Err ELSE Ok([value |-> value.val, take |-> take])
    IN  Entry(fill(name, ctx))

\* NoteEntry::from_application: `take` is resolved first, then the name
from_application(app, ctx) ==
    LET Entry(take) ==
            IF ~take.ok THEN Err ELSE NoteEntryNew(app.name, take.val, ctx)
    IN  Entry(get_value(app.take, ctx))

\* NoteActions::to_note_entries: the `apply` entries in order, then `once`
to_note_entries(actions, ctx) ==
    LET apps == UnwrapOr(actions.apply, <<>>)
        Collect(rs, once) ==
            IF \E i \in 1..Len(apps) : ~rs[i].ok THEN Err
            ELSE IF IsNone(actions.once) THEN Ok([i \in 1..Len(apps) |-> rs[i].val])
            ELSE IF ~once.ok THEN Err
            ELSE Ok(Append([i \in 1..Len(apps) |-> rs[i].val], once.val))
    IN  Collect([i \in 1..Len(apps) |-> from_application(apps[i], ctx)],
                IF IsSome(actions.once)
                THEN NoteEntryNew(Unwrap(actions.once), FALSE, ctx)
                ELSE Err)

\* a variable entry that records no previous value
VariableEntryNew_ForgetsPrevious(name, value, variables) ==
    [value |-> value, previous |-> None]

\* VariableEntry::new
VariableEntryNew(name, value, variables) ==
    [value |-> value, previous |-> MapGet(variables, name)]

\* VariableEntry::from_map
from_map(applying, globals, ctx) ==
    LET Entries(rs) ==
            IF \E n \in DOMAIN applying : ~rs[n].ok THEN Err
            ELSE Ok([n \in DOMAIN applying |->
                        VariableEntryNew(n, rs[n].val, globals)])
    IN  Entries([n \in DOMAIN applying |-> fill(applying[n], ctx)])

\* a merge in which a static application keeps its entry against the input
create_variable_entries_StaticWins(choice, input, variables, ctx) ==
    LET WithInput(entries) ==
            IF IsSome(input) /\ Unwrap(input).name \notin DOMAIN entries
            THEN Ok(Some(MapInsert(entries, Unwrap(input).name,
                    VariableEntryNew(Unwrap(input).name, Unwrap(input).value,
                                     variables))))
            ELSE Ok(Some(entries))
        Static(var_entries) ==
            IF ~var_entries.ok THEN Err ELSE WithInput(var_entries.val)
    IN  IF IsSome(choice.variables)
        THEN Static(from_map(Unwrap(choice.variables), variables, ctx))
        ELSE IF IsNone(input) THEN Ok(None)
        ELSE WithInput(EmptyMap)

\* Choice::create_variable_entries; `input` is an Option of [name, value]
create_variable_entries(choice, input, variables, ctx) ==
    LET WithInput(entries) ==
            IF IsSome(input)
            THEN Ok(Some(MapInsert(entries, Unwrap(input).name,
                    VariableEntryNew(Unwrap(input).name, Unwrap(input).value,
                                     variables))))
            ELSE Ok(Some(entries))
        Static(var_entries) ==
            IF ~var_entries.ok THEN Err ELSE WithInput(var_entries.val)
    IN  IF IsSome(choice.variables)
        THEN Static(from_map(Unwrap(choice.variables), variables, ctx))
        ELSE IF IsNone(input) THEN Ok(None)
        ELSE WithInput(EmptyMap)

\* Path::fill: a missing file component is the current file
PathFill(jump, current, ctx) ==
    LET Filled(file, prompt) ==
            IF ~file.ok \/ ~prompt.ok THEN Err
            ELSE Ok([file |-> file.val, prompt |-> prompt.val])
    IN  Filled(IF IsSome(jump.file) THEN fill(Unwrap(jump.file), ctx)
               ELSE Ok(current.file),
               fill(jump.prompt, ctx))

\* settings.history.locked of the modelled manifest
HistoryLocked == FALSE

\* a history entry built for a choice without a jump too, staying at the
\* latest path
to_history_entry_JumpOptional(choice, latest, input, variables, prompt_model, ctx) ==
    LET Entry(path, display_, lock, notes, variables_) ==
            IF ~path.ok \/ ~display_.ok \/ ~lock.ok \/ ~notes.ok \/ ~variables_.ok
            THEN [some |-> TRUE, ok |-> FALSE, val |-> <<>>]
            ELSE [some |-> TRUE, ok |-> TRUE,
                  val |-> [path |-> path.val,
                           display |-> display_.val,
                           locked |-> lock.val,
                           redirect |-> (prompt_model.kind = "Redirect"),
                           notes |-> IF IsSome(choice.notes) THEN Some(notes.val)
                                     ELSE None,
                           variables |-> variables_.val,
                           log |-> IsSome(choice.log)]]
    IN  Entry(IF IsNone(choice.jump) THEN Ok(latest.path)
              ELSE PathFill(Unwrap(choice.jump), latest.path, ctx),
              get_value(choice.display, ctx),
              IF IsSome(choice.lock) THEN get_value(Unwrap(choice.lock), ctx)
              ELSE Ok(HistoryLocked),
              IF IsSome(choice.notes)
              THEN to_note_entries(Unwrap(choice.notes), ctx)
              ELSE Ok(<<>>),
              create_variable_entries(choice, input, variables, ctx))

\* Choice::to_history_entry: [some, ok, val]; some = FALSE when there is no jump
to_history_entry(choice, latest, input, variables, prompt_model, ctx) ==
    LET Entry(path, display, lock, notes, variables_) ==
            IF ~path.ok \/ ~display.ok \/ ~lock.ok \/ ~notes.ok \/ ~variables_.ok
            THEN [some |-> TRUE, ok |-> FALSE, val |-> <<>>]
            ELSE [some |-> TRUE, ok |-> TRUE,
                  val |-> [path |-> path.val,
                           display |-> display.val,
                           locked |-> lock.val,
                           redirect |-> (prompt_model.kind = "Redirect"),
                           notes |-> IF IsSome(choice.notes) THEN Some(notes.val)
                                     ELSE None,
                           variables |-> variables_.val,
                           log |-> IsSome(choice.log)]]
    IN  IF IsNone(choice.jump) THEN [some |-> FALSE, ok |-> TRUE, val |-> <<>>]
        ELSE Entry(PathFill(Unwrap(choice.jump), latest.path, ctx),
                   get_value(choice.display, ctx),
                   IF IsSome(choice.lock) THEN get_value(Unwrap(choice.lock), ctx)
                   ELSE Ok(HistoryLocked),
                   IF IsSome(choice.notes)
                   THEN to_note_entries(Unwrap(choice.notes), ctx)
                   ELSE Ok(<<>>),
                   create_variable_entries(choice, input, variables, ctx))

\* a requirement loop that resolves every requirement before comparing any
RequireLoop_Eager(require, i, notes, ctx) ==
    IF \E j \in i..Len(require) :
           ~get_value(require[j].has, ctx).ok \/ ~fill(require[j].name, ctx).ok
    THEN Err
    ELSE Ok(\A j \in i..Len(require) :
               get_value(require[j].has, ctx).val
                   = (fill(require[j].name, ctx).val \in notes))

\* the requirement loop of Choice::can_player_use, from requirement i on:
\* Ok(TRUE) when every requirement from i on matches
RECURSIVE RequireLoop(_, _, _, _)
RequireLoop(require, i, notes, ctx) ==
    IF i > Len(require) THEN Ok(TRUE)
    ELSE LET Compare(has, name) ==
                 IF ~has.ok THEN Err
                 ELSE IF ~name.ok THEN Err
                 ELSE IF has.val # (name.val \in notes) THEN Ok(FALSE)
                 ELSE RequireLoop(require, i + 1, notes, ctx)
         IN  Compare(get_value(require[i].has, ctx), fill(require[i].name, ctx))

\* a once gate that lets every choice through
OnceGate_Skipped(actions, notes, ctx) == Ok(TRUE)

\* the once gate of Choice::can_player_use
OnceGate(actions, notes, ctx) ==
    IF IsSome(actions.once)
    THEN LET Absent(once) ==
                 IF ~once.ok THEN Err
                 ELSE IF once.val \in notes THEN Ok(FALSE)
                 ELSE Ok(TRUE)
         IN  Absent(fill(Unwrap(actions.once), ctx))
    ELSE Ok(TRUE)

\* Choice::can_player_use
can_player_use(choice, notes, ctx) ==
    IF IsNone(choice.notes) THEN Ok(TRUE)
    ELSE LET actions == Unwrap(choice.notes)
             Once(required) ==
                 IF ~required.ok THEN Err
                 ELSE IF ~required.val THEN Ok(FALSE)
                 ELSE OnceGate(actions, notes, ctx)
         IN  Once(IF IsSome(actions.require)
                  THEN RequireLoop(Unwrap(actions.require), 1, notes, ctx)
                  ELSE Ok(TRUE))

----------------------------------------------------------------------------
(* core/prompt.rs *)

\* a model that overlooks the response of a lone choice
PromptModelOf_IgnoresResponse(prompt, ctx) ==
    IF Len(prompt.choices) = 1
    THEN LET choice == prompt.choices[1]
             Input(name) ==
                 IF ~name.ok THEN Err
                 ELSE Ok([kind |-> "Input", name |-> name.val])
         IN  IF IsSome(choice.input)
             THEN Input(fill(Unwrap(choice.input).name, ctx))
             ELSE IF IsSome(choice.ending)
             THEN Ok([kind |-> "Ending", name |-> <<>>])
             ELSE Ok([kind |-> "Redirect", name |-> <<>>])
    ELSE Ok([kind |-> "Response", name |-> <<>>])

\* Prompt::model
PromptModelOf(prompt, ctx) ==
    IF Len(prompt.choices) = 1
    THEN LET choice == prompt.choices[1]
             Input(name) ==
                 IF ~name.ok THEN Err
                 ELSE Ok([kind |-> "Input", name |-> name.val])
         IN  IF IsSome(choice.input)
             THEN Input(fill(Unwrap(choice.input).name, ctx))
             ELSE IF IsNone(choice.response)
             THEN IF IsSome(choice.ending)
                  THEN Ok([kind |-> "Ending", name |-> <<>>])
                  ELSE Ok([kind |-> "Redirect", name |-> <<>>])
             ELSE Ok([kind |-> "Response", name |-> <<>>])
    ELSE Ok([kind |-> "Response", name |-> <<>>])

\* the loop of Prompt::usable_choices from choice i on; the result lists the
\* usable choices by their position in the prompt's choice list
RECURSIVE UsableLoop(_, _, _, _, _)
UsableLoop(prompt, i, notes, ctx, result) ==
    IF i > Len(prompt.choices) THEN Ok(result)
    ELSE LET Keep(usable) ==
                 IF ~usable.ok THEN Err
                 ELSE UsableLoop(prompt, i + 1, notes, ctx,
                                 IF usable.val THEN Append(result, i) ELSE result)
         IN  Keep(can_player_use(prompt.choices[i], notes, ctx))

usable_choices(prompt, notes, ctx) == UsableLoop(prompt, 1, notes, ctx, <<>>)

\* Text::get on a choice response: the content filled, then formatted by the
\* default text mode, Dialogue, which wraps it in quotes
TextGet(content, ctx) ==
    LET Format(filled) ==
            IF ~filled.ok THEN Err ELSE Ok(<<"\"">> \o filled.val \o <<"\"">>)
    IN  Format(fill(content, ctx))

\* Choice::response_line: the number, then the tag (the modelled choices carry
\* none) and the response
response_line(choice, index, ctx) ==
    LET Line(response) ==
            IF ~response.ok THEN Err
            ELSE Ok([index |-> index, text |-> response.val])
    IN  Line(TextGet(Unwrap(choice.response), ctx))

\* a display that numbers every line by the choice's place in the prompt
display_OriginalIndex(prompt, usable, ctx) ==
    LET shown == SelectSeq(usable, LAMBDA i : IsSome(prompt.choices[i].response))
    IN  Ok([k \in 1..Len(shown) |->
               response_line(prompt.choices[shown[k]], shown[k], ctx).val])

\* Choice::display on the usable choices, given by their positions in the
\* prompt: the lines of those that have a response, each numbered by its
\* place among the usable choices
display(prompt, usable, ctx) ==
    LET shown == {k \in 1..Len(usable) : IsSome(prompt.choices[usable[k]].response)}
        Lines(rs) ==
            IF \E k \in shown : ~rs[k].ok THEN Err
            ELSE Ok([j \in 1..Cardinality(shown) |->
                        rs[CHOOSE k \in shown :
                               Cardinality({l \in shown : l < k}) = j - 1].val])
    IN  Lines([k \in shown |-> response_line(prompt.choices[usable[k]], k, ctx)])

\* Prompt::print; the modelled prompts have no introductory text
PromptPrint(prompt, prompt_model, usable, ctx) ==
    IF prompt_model.kind = "Response" THEN display(prompt, usable, ctx)
    ELSE Ok(<<>>)

----------------------------------------------------------------------------
(* core/player.rs *)

S_m == <<"m">>
S_s == <<"s">>

\* entry.path of the modelled manifest
EntryPath == [file |-> S_m, prompt |-> S_s]

\* HistoryEntry::new
HistoryEntryNew(path) ==
    [path |-> path, display |-> TRUE, locked |-> FALSE, redirect |-> FALSE,
     notes |-> None, variables |-> None, log |-> FALSE]

\* Player::new; the modelled manifest sets settings.lang, enables every
\* channel, gives the entry the variable w and leaves the entry's notes, info
\* pages and log out
PlayerNew ==
    [began |-> FALSE, lang |-> S_en, channels |-> AudioPlayers, notes |-> {},
     variables |-> (S_w :> S_en), info_pages |-> {}, log |-> <<>>,
     history |-> <<HistoryEntryNew(EntryPath)>>]

\* Player::apply_note, on the note set
apply_note(notes, name, take, reverse) ==
    LET take_ == IF reverse THEN ~take ELSE take
    IN  IF take_ THEN notes \ {name} ELSE notes \cup {name}

\* the note entries of a history entry applied in list order
RECURSIVE ApplyNotes(_, _, _, _)
ApplyNotes(notes, entries, i, reverse) ==
    IF i > Len(entries) THEN notes
    ELSE ApplyNotes(apply_note(notes, entries[i].value, entries[i].take, reverse),
                    entries, i + 1, reverse)

\* Player::latest_entry
latest_entry(p) ==
    IF Len(p.history) = 0 THEN Err ELSE Ok(p.history[Len(p.history)])

\* a pop that ignores the lock of the latest entry
pop_latest_entry_IgnoresLock(p) ==
    IF Len(p.history) = 0 THEN [ok |-> FALSE, val |-> <<>>, player |-> p]
    ELSE [ok |-> TRUE, val |-> p.history[Len(p.history)],
          player |-> [p EXCEPT !.history = SubSeq(@, 1, Len(@) - 1)]]

\* Player::pop_latest_entry: [ok, val (the popped entry), player]
pop_latest_entry(p) ==
    LET latest == latest_entry(p)
    IN  IF ~latest.ok THEN [ok |-> FALSE, val |-> <<>>, player |-> p]
        ELSE IF latest.val.locked THEN [ok |-> FALSE, val |-> <<>>, player |-> p]
        ELSE [ok |-> TRUE, val |-> latest.val,
              player |-> [p EXCEPT !.history = SubSeq(@, 1, Len(@) - 1)]]

\* the variable entries of a popped history entry undone
UndoVariables(variables, entries) ==
    LET restored == {n \in DOMAIN entries : IsSome(entries[n].previous)}
        removed == (DOMAIN entries) \ restored
    IN  [n \in ((DOMAIN variables) \ removed) \cup restored |->
            IF n \in restored THEN Unwrap(entries[n].previous) ELSE variables[n]]

\* an undo that also locks the info pages again
UndoEntry_LocksInfoPages(p, latest) ==
    [p EXCEPT
        !.notes = IF IsSome(latest.notes)
                  THEN ApplyNotes(@, Unwrap(latest.notes), 1, TRUE) ELSE @,
        !.variables = IF IsSome(latest.variables)
                      THEN UndoVariables(@, Unwrap(latest.variables)) ELSE @,
        !.log = IF latest.log /\ Len(@) > 0 THEN SubSeq(@, 1, Len(@) - 1) ELSE @,
        !.info_pages = {}]

\* one pass of the loop of Player::back on an entry already popped
UndoEntry(p, latest) ==
    [p EXCEPT
        !.notes = IF IsSome(latest.notes)
                  THEN ApplyNotes(@, Unwrap(latest.notes), 1, TRUE) ELSE @,
        !.variables = IF IsSome(latest.variables)
                      THEN UndoVariables(@, Unwrap(latest.variables)) ELSE @,
        !.log = IF latest.log /\ Len(@) > 0 THEN SubSeq(@, 1, Len(@) - 1) ELSE @]

\* a loop of Player::back that stops after every entry
BackContinues_Never(latest) == FALSE

\* whether the loop of Player::back goes on after undoing `latest`
BackContinues(latest) == latest.redirect

\* Player::back: [ok, player, popped (the number of entries popped)]
RECURSIVE BackLoop(_, _)
BackLoop(p, popped) ==
    LET Undo(pop) ==
            IF ~pop.ok THEN [ok |-> FALSE, player |-> p, popped |-> popped]
            ELSE IF BackContinues(pop.val)
            THEN BackLoop(UndoEntry(pop.player, pop.val), popped + 1)
            ELSE [ok |-> TRUE, player |-> UndoEntry(pop.player, pop.val),
                  popped |-> popped + 1]
    IN  Undo(pop_latest_entry(p))

\* As back, but only the first pop of the loop checks the locked flag
RECURSIVE BackLoop_IgnoresLock(_, _)
BackLoop_IgnoresLock(p, popped) ==
    LET Undo(pop) ==
            IF ~pop.ok THEN [ok |-> FALSE, player |-> p, popped |-> popped]
            ELSE IF BackContinues(pop.val)
            THEN BackLoop_IgnoresLock(UndoEntry(pop.player, pop.val), popped + 1)
            ELSE [ok |-> TRUE, player |-> UndoEntry(pop.player, pop.val),
                  popped |-> popped + 1]
    IN  Undo(pop_latest_entry_IgnoresLock(p))

back_LockCheckedOnce(p) ==
    LET Undo(pop) ==
            IF ~pop.ok THEN [ok |-> FALSE, player |-> p, popped |-> 0]
            ELSE IF BackContinues(pop.val)
            THEN BackLoop_IgnoresLock(UndoEntry(pop.player, pop.val), 1)
            ELSE [ok |-> TRUE, player |-> UndoEntry(pop.player, pop.val),
                  popped |-> 1]
    IN  Undo(pop_latest_entry(p))

back(p) == BackLoop(p, 0)

\* the info-page loop of Player::apply_entry from page i on: [ok, val];
\* a failing fill leaves the pages inserted so far
RECURSIVE InfoLoop(_, _, _, _)
InfoLoop(info_pages, pages, i, ctx) ==
    IF i > Len(pages) THEN [ok |-> TRUE, val |-> info_pages]
    ELSE LET Insert(page) ==
                 IF ~page.ok THEN [ok |-> FALSE, val |-> info_pages]
                 ELSE InfoLoop(info_pages \cup {page.val}, pages, i + 1, ctx)
         IN  Insert(fill(pages[i], ctx))

\* Player::apply_entry: [ok, player]
apply_entry(p, entry, choice, ctx) ==
    LET notes == IF IsSome(entry.notes)
                 THEN ApplyNotes(p.notes, Unwrap(entry.notes), 1, FALSE)
                 ELSE p.notes
        variables ==
            IF IsSome(entry.variables)
            THEN LET ve == Unwrap(entry.variables)
                 IN  MapExtend(p.variables, [n \in DOMAIN ve |-> ve[n].value])
            ELSE p.variables
        Applied(info) ==
            [ok |-> info.ok,
             player |-> [p EXCEPT !.notes = notes, !.variables = variables,
                                  !.info_pages = info.val]]
    IN  Applied(IF IsSome(choice.info_pages)
                THEN InfoLoop(p.info_pages, Unwrap(choice.info_pages), 1, ctx)
                ELSE [ok |-> TRUE, val |-> p.info_pages])

\* a push that never evicts
PushEntry_Unbounded(history, entry) == Append(history, entry)

\* a push that evicts only above two entries more than the cap
PushEntry_EvictsLate(history, entry) ==
    IF Len(history) + 1 > HistorySize + 2
    THEN Tail(Append(history, entry)) ELSE Append(history, entry)

\* the push of Player::choose followed by the eviction of the oldest entry
PushEntry(history, entry) ==
    LET pushed == Append(history, entry)
    IN  IF Len(pushed) > HistorySize THEN Tail(pushed) ELSE pushed

\* str::parse::<SoundActionMode>: the snake_case names of the modes
ParseMode(str) ==
    CASE str = <<"q", "u", "e", "u", "e">> -> Ok("Queue")
      [] str = <<"o", "v", "e", "r", "w", "r", "i", "t", "e">> -> Ok("Overwrite")
      [] str = <<"p", "a", "s", "s", "i", "v", "e">> -> Ok("Passive")
      [] str = <<"s", "k", "i", "p">> -> Ok("Skip")
      [] str = <<"p", "a", "u", "s", "e">> -> Ok("Pause")
      [] str = <<"p", "l", "a", "y">> -> Ok("Play")
      [] OTHER -> Err

\* TemplatableValue::<SoundActionMode>::get_value
get_mode(tv, ctx) ==
    IF IsSome(tv.value) THEN Ok(Unwrap(tv.value))
    ELSE LET Parse(filled) == IF ~filled.ok THEN Err ELSE ParseMode(filled.val)
         IN  Parse(fill(Unwrap(tv.template), ctx))

\* Audio::accept up to the call on the channel's audio player: Ok(None) when
\* the player has the channel disabled, else Ok(Some(submission)); the
\* modelled sound actions set neither seek nor speed
accept(p, action, ctx) ==
    LET Named(channel, mode, sound) ==
            IF ~sound.ok THEN Err
            ELSE IF sound.val \notin Sounds THEN Err
            ELSE Ok(Some([channel |-> channel, name |-> Some(sound.val),
                          mode |-> mode]))
        Moded(channel, mode) ==
            IF ~mode.ok THEN Err
            ELSE IF IsNone(action.name)
            THEN Ok(Some([channel |-> channel, name |-> None, mode |-> mode.val]))
            ELSE Named(channel, mode.val, fill(Unwrap(action.name), ctx))
        Channel(channel) ==
            IF ~channel.ok THEN Err
            ELSE IF channel.val \notin AudioPlayers THEN Err
            ELSE IF channel.val \notin p.channels THEN Ok(None)
            ELSE Moded(channel.val, get_mode(action.mode, ctx))
    IN  Channel(fill(action.channel, ctx))

\* the sound loop of Player::choose from action i on: [ok, val]; val lists the
\* submissions made, also those made before a failing action
RECURSIVE SoundLoop(_, _, _, _, _)
SoundLoop(p, sounds, i, ctx, made) ==
    IF i > Len(sounds) THEN [ok |-> TRUE, val |-> made]
    ELSE LET Accepted(r) ==
                 IF ~r.ok THEN [ok |-> FALSE, val |-> made]
                 ELSE SoundLoop(p, sounds, i + 1, ctx, made \o r.val)
         IN  Accepted(accept(p, sounds[i], ctx))

\* Audio::accept_general and Audio::accept_specific on the state of the
\* channel's audio player: [song, queued, playing]
AudioSubmit(channel_state, submission) ==
    LET mode == submission.mode
    IN  IF IsNone(submission.name)
        THEN CASE mode = "Skip" ->
                      [channel_state EXCEPT !.song = channel_state.queued,
                                            !.queued = None]
               [] mode = "Play" -> [channel_state EXCEPT !.playing = TRUE]
               [] mode = "Pause" -> [channel_state EXCEPT !.playing = FALSE]
               [] OTHER -> channel_state
        ELSE CASE mode = "Overwrite" ->
                      [channel_state EXCEPT !.song = submission.name]
               [] mode = "Queue" ->
                      IF IsNone(channel_state.song)
                      THEN [channel_state EXCEPT !.song = submission.name]
                      ELSE [channel_state EXCEPT !.queued = submission.name]
               [] mode = "Passive" ->
                      IF IsNone(channel_state.song)
                      THEN [channel_state EXCEPT !.song = submission.name]
                      ELSE channel_state
               [] OTHER -> channel_state

\* the submissions of one Player::choose made on the audio players, in order
RECURSIVE AudioApply(_, _, _)
AudioApply(players, made, i) ==
    IF i > Len(made) THEN players
    ELSE AudioApply([players EXCEPT ![made[i].channel] = AudioSubmit(@, made[i])],
                    made, i + 1)

\* Audio::load: every channel's audio player starts without a song
AudioNew ==
    [channel \in AudioPlayers |-> [song |-> None, queued |-> None, playing |-> TRUE]]

\* Player::choose: [ok, player, pushed, evict, sounds]; sounds lists the
\* submissions made to the audio resource, resolved with the context handed in
choose(p, choice, input, prompt_model, ctx) ==
    LET latest == latest_entry(p)
        unchanged == [ok |-> FALSE, player |-> p, pushed |-> FALSE, evict |-> FALSE,
                      sounds |-> <<>>]
        Submitted(c, made) == [c EXCEPT !.ok = made.ok, !.sounds = made.val]
        Sound(c) ==
            IF IsSome(choice.sounds)
            THEN Submitted(c, SoundLoop(c.player, Unwrap(choice.sounds), 1, ctx, <<>>))
            ELSE c
        Push(h, a) ==
            IF ~a.ok THEN [unchanged EXCEPT !.player = a.player]
            ELSE Sound([ok |-> TRUE,
                        player |-> [a.player EXCEPT !.history = PushEntry(@, h.val)],
                        pushed |-> TRUE,
                        evict |-> Len(p.history) + 1 > HistorySize,
                        sounds |-> <<>>])
        Apply(h) ==
            IF ~h.some THEN Sound([unchanged EXCEPT !.ok = TRUE])
            ELSE IF ~h.ok THEN unchanged
            ELSE Push(h, apply_entry(p, h.val, choice, ctx))
    IN  IF ~latest.ok THEN unchanged
        ELSE Apply(to_history_entry(choice, latest.val, input, p.variables,
                                    prompt_model, ctx))

\* an after_choice that fills the log line with the notes and variables of
\* before the latest entry was applied
after_choice_StaleContext(p, choice) ==
    IF IsSome(choice.log)
    THEN LET Logged(log_filled) ==
                 IF ~log_filled.ok THEN [ok |-> FALSE, player |-> p]
                 ELSE [ok |-> latest_entry(p).ok,
                       player |-> [p EXCEPT !.log = Append(@, log_filled.val)]]
         IN  Logged(fill(Unwrap(choice.log),
                         TextContextOf(UndoEntry(p, p.history[Len(p.history)]))))
    ELSE [ok |-> latest_entry(p).ok, player |-> p]

\* Player::after_choice: [ok, player]; the log line is filled with a context
\* built from the player's current notes and variables
after_choice(p, choice) ==
    IF IsSome(choice.log)
    THEN LET Logged(log_filled) ==
                 IF ~log_filled.ok THEN [ok |-> FALSE, player |-> p]
                 ELSE [ok |-> latest_entry(p).ok,
                       player |-> [p EXCEPT !.log = Append(@, log_filled.val)]]
         IN  Logged(fill(Unwrap(choice.log), TextContextOf(p)))
    ELSE [ok |-> latest_entry(p).ok, player |-> p]

\* RichPresenceMode: Id, or Custom with its fallback flag
RichPresenceModeId == [kind |-> "Id", fallback |-> FALSE]
RichPresenceModeCustom(fallback) == [kind |-> "Custom", fallback |-> fallback]

\* Display of a path: file, a slash, prompt
PathToString(path) == path.file \o <<"/">> \o path.prompt

\* RichPresenceMode::get_state: the path of the latest entry in Id mode; in
\* Custom mode the drp detail is filled, an error of the fill is returned, and
\* and_then maps the filled detail, when there is one, to the log line if
\* fallback is set and to nothing if it is not
get_state(mode, latest, drp, log, ctx) ==
    IF mode.kind = "Id" THEN Ok(Some(PathToString(latest.path)))
    ELSE LET AndThen(filled) ==
                 IF ~filled.ok THEN Err
                 ELSE IF IsNone(filled.val) THEN Ok(None)
                 ELSE Ok(IF mode.fallback THEN log ELSE None)
         IN  AndThen(IF IsNone(drp) THEN Ok(None)
                     ELSE LET Inverted(r) == IF r.ok THEN Ok(Some(r.val)) ELSE Err
                          IN  Inverted(fill(Unwrap(drp), ctx)))

\* Player::after_choice with the rich presence state it hands to
\* set_rich_presence: the log line is filled and pushed, then get_state is
\* asked with the latest entry, the choice's drp, the filled log line and the
\* context built from the player
after_choice_drp(p, choice, mode) ==
    LET ctx == TextContextOf(p)
        Stated(logged, state) ==
            IF ~state.ok THEN [ok |-> FALSE, player |-> logged, state |-> None]
            ELSE [ok |-> TRUE, player |-> logged, state |-> state.val]
        Logged(log_filled) ==
            IF ~log_filled.ok THEN [ok |-> FALSE, player |-> p, state |-> None]
            ELSE LET logged == IF IsSome(log_filled.val)
                               THEN [p EXCEPT !.log = Append(@, Unwrap(log_filled.val))]
                               ELSE p
                 IN  IF ~latest_entry(logged).ok
                     THEN [ok |-> FALSE, player |-> logged, state |-> None]
                     ELSE Stated(logged,
                                 get_state(mode, latest_entry(logged).val, choice.drp,
                                           log_filled.val, ctx))
    IN  Logged(IF IsNone(choice.log) THEN Ok(None)
               ELSE LET Inverted(r) == IF r.ok THEN Ok(Some(r.val)) ELSE Err
                    IN  Inverted(fill(Unwrap(choice.log), ctx)))

\* Player::choose_full
choose_full(p, choice, input, prompt_model, ctx) ==
    LET After(c, a) == [c EXCEPT !.ok = a.ok, !.player = a.player]
        Chosen(c) ==
            IF ~c.ok THEN c ELSE After(c, after_choice(c.player, choice))
    IN  Chosen(choose(p, choice, input, prompt_model, ctx))

----------------------------------------------------------------------------
(* cmd/runtime.rs *)

\* RuntimeCommand::back: [ok, player, popped]
RuntimeBack(p) ==
    IF Len(p.history) <= 1 THEN [ok |-> FALSE, player |-> p, popped |-> 0]
    ELSE back(p)

----------------------------------------------------------------------------
(* The prompts of the modelled game, all in the prompt file "m" *)

S_h == <<"h">>
S_r == <<"r">>
S_t == <<"t">>
S_q == <<"q">>
S_i == <<"i">>
S_b == <<"b">>
S_e == <<"e">>
S_f == <<"f">>
T_one == <<"(", "o", "n", "e", ")">>
T_no == <<"(", "n", "o", ")">>
T_bad == <<"(", "b", "a", "d", ")">>
T_g_plus == <<"<", "g", ">", "+">>
T_n == <<"<", "n", ">">>
T_w == <<"<", "w", ">">>
T_lang == <<"<", "n", "a", "g", "e", ":", "l", "a", "n", "g", ">">>
S_v == <<"v">>
S_z == <<"z">>
S_k == <<"k">>
S_d == <<"d">>
S_u == <<"u">>
S_l == <<"l">>
S_j == <<"j">>

\* a choice with every optional section left out
NoChoice ==
    [response |-> None, input |-> None, jump |-> None, display |-> TValue(TRUE),
     lock |-> None, notes |-> None, variables |-> None, log |-> None,
     info_pages |-> None, sounds |-> None, ending |-> None]

JumpTo(prompt) == Some([file |-> None, prompt |-> prompt])
NoNotes == [apply |-> None, require |-> None, once |-> None]
Give(name) == [name |-> name, take |-> TValue(FALSE)]
Take(name) == [name |-> name, take |-> TValue(TRUE)]
Has(name, has) == [name |-> name, has |-> has]
Responding == [NoChoice EXCEPT !.response = Some(<<"r">>)]

\* "s", the entrypoint: a lone choice without response, input or ending
PromptS == [choices |-> <<[NoChoice EXCEPT !.jump = JumpTo(S_h)]>>]

\* "h", the hub
PromptH == [choices |-> <<
    \* 1: gives note a (named by a script) and appends to variable g
    [Responding EXCEPT
        !.jump = JumpTo(S_h),
        !.notes = Some([NoNotes EXCEPT !.apply = Some(<<Give(T_one)>>)]),
        !.variables = Some(S_g :> T_g_plus)],
    \* 2: a one-off choice for a player without note a; its apply list takes
    \* its own once symbol and note a
    [Responding EXCEPT
        !.jump = JumpTo(S_h),
        !.notes = Some([NoNotes EXCEPT
            !.apply = Some(<<Take(S_x), Take(S_a)>>),
            !.require = Some(<<Has(S_a, TValue(FALSE))>>),
            !.once = Some(S_x)])],
    \* 3: mentions note a twice: gives it, then takes it
    [Responding EXCEPT
        !.jump = JumpTo(S_h),
        !.notes = Some([NoNotes EXCEPT !.apply = Some(<<Give(S_a), Take(S_a)>>)])],
    \* 4: a locked jump to "q"
    [Responding EXCEPT !.jump = JumpTo(S_q), !.lock = Some(TValue(TRUE))],
    \* 5: enters the redirect chain r -> t -> h, giving note a
    [Responding EXCEPT
        !.jump = JumpTo(S_r),
        !.notes = Some([NoNotes EXCEPT !.apply = Some(<<Give(S_a)>>)])],
    \* 6: a one-off jump to the input prompt "i"
    [Responding EXCEPT
        !.jump = JumpTo(S_i),
        !.notes = Some([NoNotes EXCEPT !.once = Some(S_y)])],
    \* 7: ends the game without a jump, though it lists a note, a variable
    \* and an info page
    [Responding EXCEPT
        !.ending = Some(<<"e">>),
        !.notes = Some([NoNotes EXCEPT !.apply = Some(<<Give(S_x)>>)]),
        !.variables = Some(S_g :> T_g_plus),
        !.info_pages = Some(<<S_b>>)]
    >>]

\* "r" and "t", the redirect chain
PromptR == [choices |-> <<
    [NoChoice EXCEPT !.jump = JumpTo(S_t), !.variables = Some(S_g :> T_g_plus)]>>]
PromptT == [choices |-> <<[NoChoice EXCEPT !.jump = JumpTo(S_h)]>>]

\* "q", the gated choices
PromptQ == [choices |-> <<
    \* 1: requires a absent, then a requirement whose name fails to resolve
    [Responding EXCEPT
        !.jump = JumpTo(S_h),
        !.notes = Some([NoNotes EXCEPT
            !.require = Some(<<Has(S_a, TValue(FALSE)), Has(T_bad, TValue(TRUE))>>)])],
    \* 2: requires a absent, with a once symbol that fails to resolve
    [Responding EXCEPT
        !.jump = JumpTo(S_h),
        !.notes = Some([NoNotes EXCEPT
            !.require = Some(<<Has(S_a, TValue(FALSE))>>),
            !.once = Some(T_bad)])],
    \* 3: requires x absent, the expectation coming from a script; a locked
    \* jump to "t", whose redirect leads back to the hub
    [Responding EXCEPT
        !.jump = JumpTo(S_t),
        !.lock = Some(TValue(TRUE)),
        !.notes = Some([NoNotes EXCEPT
            !.require = Some(<<Has(S_x, TTemplate(T_no))>>)])],
    \* 4: an empty require list, the jump to the ending prompt naming its file
    [Responding EXCEPT
        !.jump = Some([file |-> Some(S_m), prompt |-> S_e]),
        !.notes = Some([NoNotes EXCEPT !.require = Some(<<>>)])],
    \* 5: a jump to the farewell prompt
    [Responding EXCEPT !.jump = JumpTo(S_f)],
    \* 6: a jump to the dead end
    [Responding EXCEPT !.jump = JumpTo(S_d)],
    \* 7: a jump to the prompt that redirects to itself
    [Responding EXCEPT !.jump = JumpTo(S_u)],
    \* 8: takes note a and appends to variable g; the name of its second
    \* info page fails to resolve
    [Responding EXCEPT
        !.jump = JumpTo(S_h),
        !.notes = Some([NoNotes EXCEPT !.apply = Some(<<Take(S_a)>>)]),
        !.variables = Some(S_g :> T_g_plus),
        !.info_pages = Some(<<S_b, T_bad>>)],
    \* 9: takes note a; its sound action names a sound file the game lacks
    [Responding EXCEPT
        !.jump = JumpTo(S_h),
        !.notes = Some([NoNotes EXCEPT !.apply = Some(<<Take(S_a)>>)]),
        !.sounds = Some(<<[name |-> Some(S_z), channel |-> S_c,
                           mode |-> [value |-> Some("Overwrite"),
                                     template |-> None]]>>)],
    \* 10: requires x and y; a locked jump to the lobby of the journal
    [Responding EXCEPT
        !.jump = JumpTo(S_l),
        !.lock = Some(TValue(TRUE)),
        !.notes = Some([NoNotes EXCEPT
            !.require = Some(<<Has(S_x, TValue(TRUE)), Has(S_y, TValue(TRUE))>>)])]
    >>]

\* "d", the dead end: both choices require note x, which no choice with a
\* jump gives
PromptD == [choices |-> <<
    [Responding EXCEPT
        !.jump = JumpTo(S_h),
        !.notes = Some([NoNotes EXCEPT !.require = Some(<<Has(S_x, TValue(TRUE))>>)])],
    [Responding EXCEPT
        !.jump = JumpTo(S_q),
        !.notes = Some([NoNotes EXCEPT !.require = Some(<<Has(S_x, TValue(TRUE))>>)])]
    >>]

\* "u", a Redirect prompt whose lone choice jumps to "u" itself
PromptU == [choices |-> <<[NoChoice EXCEPT !.jump = JumpTo(S_u)]>>]

\* "l", the lobby of the journal: a logged jump to "j", or the end of the game
PromptL == [choices |-> <<
    [Responding EXCEPT !.jump = JumpTo(S_j), !.log = Some(S_l)],
    [Responding EXCEPT !.ending = Some(<<"e">>)]
    >>]

\* "j", the journal: an Input prompt whose lone choice has an ending and a
\* log message, the span of the variable the line is stored in, but no jump
PromptJ == [choices |-> <<
    [NoChoice EXCEPT
        !.input = Some([name |-> S_n, text |-> None]),
        !.ending = Some(<<"e">>),
        !.log = Some(T_n)]>>]

\* "e", the ending prompt: a lone choice with an ending and no response
PromptE == [choices |-> <<[NoChoice EXCEPT !.ending = Some(<<"e">>)]>>]

\* "f", the farewell prompt: a lone choice with a response, an ending and a
\* jump
PromptF == [choices |-> <<
    [Responding EXCEPT
        !.ending = Some(<<"e">>),
        !.jump = JumpTo(S_h),
        !.variables = Some(S_w :> S_fr),
        !.sounds = Some(<<[name |-> Some(T_w), channel |-> S_c,
                           mode |-> [value |-> Some("Overwrite"),
                                     template |-> None]]>>)]>>]

\* "i", the input prompt: stores the typed line in variable n, which its
\* static variables name as well, beside v, set to the language code; its
\* input text is a translation key
PromptI == [choices |-> <<
    [NoChoice EXCEPT
        !.input = Some([name |-> S_n, text |-> Some(S_k)]),
        !.jump = JumpTo(S_h),
        !.variables = Some((S_n :> S_z) @@ (S_v :> T_lang)),
        !.log = Some(T_n),
        !.info_pages = Some(<<S_b>>)]>>]

PromptFile == (S_s :> PromptS) @@ (S_h :> PromptH) @@ (S_r :> PromptR)
              @@ (S_t :> PromptT) @@ (S_q :> PromptQ) @@ (S_i :> PromptI)
              @@ (S_e :> PromptE) @@ (S_f :> PromptF) @@ (S_d :> PromptD)
              @@ (S_u :> PromptU) @@ (S_l :> PromptL) @@ (S_j :> PromptJ)

Prompts == (S_m :> PromptFile)

\* Prompt::get
PromptGet(path) ==
    IF path.file \notin DOMAIN Prompts THEN Err
    ELSE IF path.prompt \notin DOMAIN Prompts[path.file] THEN Err
    ELSE Ok(Prompts[path.file][path.prompt])

\* the lines the player may type at an input prompt
TypedLines == {S_b}

----------------------------------------------------------------------------
(* core/choice.rs, core/prompt.rs, core/path.rs: validation *)

\* the info pages of the modelled game
InfoPages == {S_b}

is_str_templatable(str) == Contains(str, "(") \/ Contains(str, "<")

\* TemplatableString::is_validatable: a string without template spans
TStringIsValidatable(str) == ~is_str_templatable(str)

\* Path::is_validatable
PathIsValidatable(path) ==
    /\ IsSome(path.file) => TStringIsValidatable(Unwrap(path.file))
    /\ TStringIsValidatable(path.prompt)

\* the result of a validation: the error names the section at fault
Valid == [ok |-> TRUE, err |-> "none"]
Invalid(err) == [ok |-> FALSE, err |-> err]

\* a Choice::validate that accepts a jump to a prompt that does not exist
ChoiceValidate_AnyTarget(choice, local_file, has_company) ==
    IF IsNone(choice.jump) /\ IsNone(choice.ending) THEN Invalid("jump")
    ELSE IF has_company /\ IsNone(choice.response) THEN Invalid("response")
    ELSE Valid

\* Choice::validate
ChoiceValidate(choice, local_file, has_company) ==
    LET Company ==
            IF has_company /\ IsNone(choice.response) THEN Invalid("response")
            ELSE Valid
        Target(jump) ==
            IF PathIsValidatable(jump)
               /\ ~PromptGet([file |-> UnwrapOr(jump.file, local_file),
                              prompt |-> jump.prompt]).ok
            THEN Invalid("target")
            ELSE Company
    IN  IF IsNone(choice.jump)
        THEN IF IsNone(choice.ending) THEN Invalid("jump") ELSE Company
        ELSE Target(Unwrap(choice.jump))

\* the loop of Prompt::validate from choice i on: [ok, err, index]; index is
\* the number the error gives the choice, 0 without error
RECURSIVE ValidateLoop(_, _, _, _)
ValidateLoop(all, i, file, has_company) ==
    IF i > Len(all) THEN [ok |-> TRUE, err |-> "none", index |-> 0]
    ELSE LET Checked(v) ==
                 IF ~v.ok THEN [ok |-> FALSE, err |-> v.err, index |-> i]
                 ELSE ValidateLoop(all, i + 1, file, has_company)
         IN  Checked(ChoiceValidate(all[i], file, has_company))

\* a Prompt::validate that never asks for a response
PromptValidate_NoCompany(prompt, file) ==
    ValidateLoop(prompt.choices, 1, file, FALSE)

\* Prompt::validate; the modelled prompts have no text of their own
PromptValidate(prompt, file) ==
    ValidateLoop(prompt.choices, 1, file, Len(prompt.choices) > 1)

\* Prompt::validate_all on the prompts of the modelled game
validate_all ==
    \A file \in DOMAIN Prompts : \A name \in DOMAIN Prompts[file] :
        PromptValidate(Prompts[file][name], file).ok

----------------------------------------------------------------------------
(* game/main.rs and game/gloop.rs: the game loop *)

NoModel == [kind |-> "None", name |-> <<>>]
NoContext == TextContextNew({}, EmptyMap, <<>>)
NoPath == [file |-> <<>>, prompt |-> <<>>]

\* the head of one iteration of the loop of `begin`: the context snapshot, the
\* latest entry's prompt, its model and its usable choices
Visit(p) ==
    LET ctx == TextContextOf(p)
        failed(why) == [ok |-> FALSE, why |-> why, ctx |-> ctx, path |-> NoPath,
                        model |-> NoModel, choices |-> <<>>]
        Printed(entry, m, u, printed) ==
            IF ~printed.ok THEN failed("print")
            ELSE [ok |-> TRUE, why |-> "", ctx |-> ctx, path |-> entry.val.path,
                  model |-> m.val, choices |-> u.val]
        Choices(entry, prompt, m, u) ==
            IF ~m.ok THEN failed("model")
            ELSE IF ~u.ok THEN failed("usable")
            ELSE IF Len(u.val) = 0 THEN failed("empty")
            ELSE Printed(entry, m, u, PromptPrint(prompt.val, m.val, u.val, ctx))
        Found(entry, prompt) ==
            IF ~prompt.ok THEN failed("prompt")
            ELSE Choices(entry, prompt, PromptModelOf(prompt.val, ctx),
                         usable_choices(prompt.val, p.notes, ctx))
        Latest(entry) ==
            IF ~entry.ok THEN failed("history")
            ELSE Found(entry, PromptGet(entry.val.path))
    IN  Latest(latest_entry(p))

\* next_input_context: Ok(Some(context)) at a Response or Input prompt; the
\* input text of an Input prompt is the one of the prompt's lone choice
next_input_context(prompt, prompt_model, usable, ctx) ==
    IF prompt_model.kind = "Response"
    THEN Ok(Some([kind |-> "Choices", n |-> Len(usable), name |-> <<>>,
                  prompt |-> None]))
    ELSE IF prompt_model.kind = "Input"
    THEN LET text == Unwrap(prompt.choices[1].input).text
             Variable(filled) ==
                 IF ~filled.ok THEN Err
                 ELSE Ok(Some([kind |-> "Variable", n |-> 0,
                               name |-> prompt_model.name,
                               prompt |-> Some(filled.val)]))
         IN  IF IsSome(text) THEN Variable(fill(Unwrap(text), ctx))
             ELSE Ok(Some([kind |-> "Variable", n |-> 0,
                           name |-> prompt_model.name, prompt |-> None]))
    ELSE Ok(None)

\* usize::from_str on a line: digits, after an optional plus sign
Digits == <<"0", "1", "2", "3", "4", "5", "6", "7", "8", "9">>
DigitValue(c) == (CHOOSE d \in 1..10 : Digits[d] = c) - 1
IsDigit(c) == \E d \in 1..10 : Digits[d] = c

RECURSIVE ParseDigits(_, _, _)
ParseDigits(line, i, acc) ==
    IF i > Len(line) THEN Ok(acc)
    ELSE IF ~IsDigit(line[i]) THEN Err
    ELSE ParseDigits(line, i + 1, acc * 10 + DigitValue(line[i]))

ParseUsize(line) ==
    LET digits == IF Len(line) >= 1 /\ line[1] = "+"
                  THEN SubSeq(line, 2, Len(line)) ELSE line
    IN  IF Len(digits) = 0 THEN Err ELSE ParseDigits(digits, 1, 0)

\* the results of InputController::handle_line
LineRejected(err) == [ok |-> FALSE, kind |-> err, i |-> 0]
LineResult(kind, i) == [ok |-> TRUE, kind |-> kind, i |-> i]

\* a handle_line that does not check the range of the number
handle_line_NoRange(line, context) ==
    IF Len(line) = 0 THEN LineRejected("empty")
    ELSE IF line[1] = "." THEN LineResult("Command", 0)
    ELSE IF context.kind = "Choices"
    THEN LET Parsed(choice) ==
                 IF ~choice.ok THEN LineRejected("number")
                 ELSE LineResult("Choice", choice.val)
         IN  Parsed(ParseUsize(line))
    ELSE LineResult("Variable", 0)

\* InputController::handle_line on the trimmed line
handle_line(line, context) ==
    IF Len(line) = 0 THEN LineRejected("empty")
    ELSE IF line[1] = "." THEN LineResult("Command", 0)
    ELSE IF context.kind = "Choices"
    THEN LET Parsed(choice) ==
                 IF ~choice.ok THEN LineRejected("number")
                 ELSE IF choice.val < 1 \/ choice.val > context.n
                 THEN LineRejected("range")
                 ELSE LineResult("Choice", choice.val)
         IN  Parsed(ParseUsize(line))
    ELSE LineResult("Variable", 0)

\* RuntimeCommand::lang with the language picked from the list: [ok, player]
RuntimeLang(p, lang) ==
    IF DOMAIN Translations = {} THEN [ok |-> FALSE, player |-> p]
    ELSE [ok |-> TRUE, player |-> [p EXCEPT !.lang = lang]]

\* the observation of one operation
Observed(op, ok, pushed, evict, popped) ==
    [op |-> op, ok |-> ok, pushed |-> pushed, evict |-> evict, popped |-> popped]

\* the model's bound on what a choice may produce
WithinBounds(p) ==
    /\ \A n \in DOMAIN p.variables : Len(p.variables[n]) <= MaxValueLen
    /\ Len(p.log) <= MaxLogLen

LeaveInput ==
    /\ text_context' = NoContext
    /\ model' = NoModel
    /\ choices' = <<>>
    /\ next_prompt' = NoPath

Init ==
    /\ player = PlayerNew
    /\ pc = "start"
    /\ text_context = NoContext
    /\ model = NoModel
    /\ choices = <<>>
    /\ next_prompt = NoPath
    /\ last = Observed("new", TRUE, FALSE, FALSE, 0)
    /\ backs = 0
    /\ evicted = FALSE
    /\ audio = AudioNew
    /\ template_string = <<>>
    /\ template_result = None
    /\ checked_prompt = [choices |-> <<>>]
    /\ validation = None
    /\ drp_mode = RichPresenceModeId
    /\ presence = None
    /\ quit = FALSE
    /\ odd_jumps = FALSE

\* begin, before its loop: first_play_init on a player that has not begun
Begin ==
    /\ pc = "start"
    /\ player' = [player EXCEPT !.began = TRUE]
    /\ pc' = "visit"
    /\ last' = Observed("begin", TRUE, FALSE, FALSE, 0)
    /\ UNCHANGED <<text_context, model, choices, next_prompt, backs, evicted,
                   audio>>
    /\ UNCHANGED <<template_string, template_result, checked_prompt,
                   validation,
                   drp_mode, presence, quit>>
    /\ UNCHANGED odd_jumps

\* an iteration whose head fails: `begin` returns the error
VisitCrash ==
    /\ pc = "visit"
    /\ ~Visit(player).ok
    /\ pc' = "crashed"
    /\ last' = Observed("visit", FALSE, FALSE, FALSE, 0)
    /\ UNCHANGED <<player, text_context, model, choices, next_prompt, backs,
                   evicted, audio>>
    /\ UNCHANGED <<template_string, template_result, checked_prompt,
                   validation,
                   drp_mode, presence, quit>>
    /\ odd_jumps' = FALSE

\* the body of an iteration at a Redirect prompt: choose_full on the
\* prompt's lone choice with the context of this visit
RedirectIteration(p) ==
    LET Choose(v) ==
            choose_full(p, PromptGet(v.path).val.choices[1], None, v.model, v.ctx)
    IN  Choose(Visit(p))

\* an iteration at a Redirect prompt
VisitRedirect ==
    /\ pc = "visit"
    /\ LET Iterate(v, c) ==
               /\ v.ok
               /\ v.model.kind = "Redirect"
               /\ WithinBounds(c.player)
               /\ player' = c.player
               /\ pc' = IF c.ok THEN "visit" ELSE "crashed"
               /\ last' = Observed("choose", c.ok, c.pushed, c.evict, 0)
               /\ evicted' = (evicted \/ c.evict)
               /\ audio' = AudioApply(audio, c.sounds, 1)
       IN  Iterate(Visit(player), RedirectIteration(player))
    /\ backs' = 0
    /\ UNCHANGED <<text_context, model, choices, next_prompt>>
    /\ UNCHANGED <<template_string, template_result, checked_prompt,
                   validation,
                   drp_mode, presence, quit>>
    /\ odd_jumps' = ~odd_jumps

\* an iteration at an Ending prompt: the loop ends
VisitEnding ==
    /\ pc = "visit"
    /\ LET Ends(v) == v.ok /\ v.model.kind = "Ending" IN Ends(Visit(player))
    /\ pc' = "done"
    /\ last' = Observed("visit", TRUE, FALSE, FALSE, 0)
    /\ UNCHANGED <<player, text_context, model, choices, next_prompt, backs,
                   evicted, audio>>
    /\ UNCHANGED <<template_string, template_result, checked_prompt,
                   validation,
                   drp_mode, presence, quit>>
    /\ odd_jumps' = FALSE

\* the input context the loop resolves before it takes input at a visit
VisitInputContext(v) ==
    next_input_context(PromptGet(v.path).val, v.model, v.choices, v.ctx)

\* an iteration at a Response or Input prompt: the loop starts taking input,
\* or `begin` returns the error of the input context
VisitInput ==
    /\ pc = "visit"
    /\ LET Enter(v) ==
               /\ v.ok
               /\ v.model.kind \in {"Response", "Input"}
               /\ text_context' = v.ctx
               /\ model' = v.model
               /\ choices' = v.choices
               /\ next_prompt' = v.path
               /\ pc' = IF VisitInputContext(v).ok THEN "input" ELSE "crashed"
       IN  Enter(Visit(player))
    /\ last' = Observed("visit", TRUE, FALSE, FALSE, 0)
    /\ UNCHANGED <<player, backs, evicted, audio>>
    /\ UNCHANGED <<template_string, template_result, checked_prompt,
                   validation,
                   drp_mode, presence, quit>>
    /\ odd_jumps' = FALSE

\* a selection read as a place in the prompt's full list of choices
ChoiceAt_PlaceInPrompt(i) == PromptGet(next_prompt).val.choices[i]

\* the choice the i-th usable choice of the visited prompt refers to
ChoiceAt(i) == PromptGet(next_prompt).val.choices[choices[i]]

\* take_input, InputResult::Choice(i): handle_choice
HandleChoice(i) ==
    /\ LET Handle(choice, c) ==
               /\ WithinBounds(c.player)
               /\ player' = c.player
               /\ pc' = IF ~c.ok THEN "crashed"
                        ELSE IF IsSome(choice.ending) THEN "done"
                        ELSE "visit"
               /\ last' = Observed("choose", c.ok, c.pushed, c.evict, 0)
               /\ evicted' = (evicted \/ c.evict)
               /\ audio' = AudioApply(audio, c.sounds, 1)
       IN  Handle(ChoiceAt(i),
                  choose_full(player, ChoiceAt(i), None, model, text_context))
    /\ backs' = 0
    /\ LeaveInput
    /\ UNCHANGED <<template_string, template_result, checked_prompt,
                   validation,
                   drp_mode, presence>>
    /\ quit' = FALSE
    /\ UNCHANGED odd_jumps

InputChoice ==
    /\ pc = "input"
    /\ model.kind = "Response"
    /\ \E i \in 1..Len(choices) : HandleChoice(i)

\* take_input, InputResult::Variable on a player: choose, then the variable
\* is stored, then after_choice: [ok, player, pushed, evict]
TakeVariable(p, choice, prompt_model, value, ctx) ==
    LET After(c, a) == [c EXCEPT !.ok = a.ok, !.player = a.player]
        Store(c) ==
            IF ~c.ok THEN c
            ELSE After(c, after_choice(
                     [c.player EXCEPT
                         !.variables = MapInsert(@, prompt_model.name, value)],
                     choice))
    IN  Store(choose(p, choice,
                     Some([name |-> prompt_model.name, value |-> value]),
                     prompt_model, ctx))

\* take_input, InputResult::Variable
HandleVariable(value) ==
    /\ LET Handle(c) ==
               /\ WithinBounds(c.player)
               /\ player' = c.player
               /\ pc' = IF c.ok THEN "visit" ELSE "crashed"
               /\ last' = Observed("choose", c.ok, c.pushed, c.evict, 0)
               /\ evicted' = (evicted \/ c.evict)
               /\ audio' = AudioApply(audio, c.sounds, 1)
       IN  Handle(TakeVariable(player, ChoiceAt(1), model, value, text_context))
    /\ backs' = 0
    /\ LeaveInput
    /\ UNCHANGED <<template_string, template_result, checked_prompt,
                   validation,
                   drp_mode, presence>>
    /\ quit' = FALSE
    /\ UNCHANGED odd_jumps

InputVariable ==
    /\ pc = "input"
    /\ model.kind = "Input"
    /\ \E value \in TypedLines : HandleVariable(value)

\* take_input, InputResult::Command(Back): handle_command reports an error
\* and retries; a successful back continues the outer loop
InputBack ==
    /\ pc = "input"
    /\ LET Handle(b) ==
               /\ player' = b.player
               /\ last' = Observed("back", b.ok, FALSE, FALSE, b.popped)
               /\ backs' = IF b.ok THEN backs + 1 ELSE backs
               /\ IF b.ok
                  THEN pc' = "visit" /\ LeaveInput
                  ELSE pc' = "input"
                       /\ UNCHANGED <<text_context, model, choices, next_prompt>>
       IN  Handle(RuntimeBack(player))
    /\ UNCHANGED <<evicted, audio>>
    /\ UNCHANGED <<template_string, template_result, checked_prompt,
                   validation,
                   drp_mode, presence>>
    /\ quit' = FALSE
    /\ UNCHANGED odd_jumps

\* take_input, InputResult::Command(Lang): the command stores the language
\* picked and submits Retry, so the loop takes input again with the model,
\* the choices and the context of this visit
InputLang ==
    /\ pc = "input"
    /\ \E lang \in DOMAIN Translations :
          LET Handle(l) ==
                  /\ player' = l.player
                  /\ last' = Observed("lang", l.ok, FALSE, FALSE, 0)
          IN  Handle(RuntimeLang(player, lang))
    /\ pc' = "input"
    /\ UNCHANGED <<text_context, model, choices, next_prompt, backs, evicted,
                   audio>>
    /\ UNCHANGED <<template_string, template_result, checked_prompt,
                   validation,
                   drp_mode, presence>>
    /\ quit' = FALSE
    /\ UNCHANGED odd_jumps

Next ==
    \/ Begin
    \/ VisitCrash
    \/ VisitRedirect
    \/ VisitEnding
    \/ VisitInput
    \/ InputChoice
    \/ InputVariable
    \/ InputBack

\* a play-through in which the player leaves the display language alone
Spec == Init /\ [][Next]_vars

\* the steps the loop takes by itself, without waiting for a line of input
LoopStep == Begin \/ VisitCrash \/ VisitRedirect \/ VisitEnding \/ VisitInput

\* what every step of LoopStep does to the position of the loop: it leaves
\* "start" or "visit" for another position, or makes one more Redirect
\* iteration
LoopProgress ==
    /\ pc \in {"start", "visit"}
    /\ pc' \in {"visit", "input", "done", "crashed"}
    /\ odd_jumps' \in BOOLEAN

\* the play-through of a loop that never stops between two inputs: the
\* program is single-threaded and blocks only to read a line, so while it
\* is not taking input it goes on to its next iteration
SpecLive == Spec /\ WF_<<pc, odd_jumps>>(LoopProgress)

\* the longest line typed at a Response prompt
MaxLineLen == 2

LineAlphabet == {"0", "1", "+"}

\* the trimmed lines the player may type: at a Response prompt every string
\* over the alphabet up to the bound, at an Input prompt the empty line and
\* the typed lines; lines that name a command are taken by InputBack and
\* InputLang
LinesAt(prompt_model) ==
    IF prompt_model.kind = "Response"
    THEN UNION {[1..k -> LineAlphabet] : k \in 0..MaxLineLen}
    ELSE {<<>>} \cup TypedLines

\* the input context of the visit the loop is taking input for
\* a take that disarms the controller after handle_line has accepted the line
take_DisarmsAfterHandling(armed, read, context) ==
    IF IsSome(read)
    THEN LET Handled(result) ==
                 [quit |-> IF result.ok THEN FALSE ELSE armed, result |-> result]
         IN  Handled(handle_line(Unwrap(read), context))
    ELSE [quit |-> TRUE, result |-> [ok |-> TRUE, kind |-> "Quit", shutdown |-> armed]]

\* InputController::take on what readline gave, a line or a failure: a line
\* disarms the controller before handle_line sees it; a failure yields Quit
\* with the flag as it was and arms the controller
take(armed, read, context) ==
    IF IsSome(read)
    THEN [quit |-> FALSE, result |-> handle_line(Unwrap(read), context)]
    ELSE [quit |-> TRUE, result |-> [ok |-> TRUE, kind |-> "Quit", shutdown |-> armed]]

\* handle_quit: Shutdown when the controller was armed, else the hint and Retry
handle_quit(shutdown) == IF shutdown THEN "Shutdown" ELSE "Retry"

InputContext ==
    Unwrap(next_input_context(PromptGet(next_prompt).val, model, choices,
                              text_context).val)

\* take_input on a line that names no command: InputController::take
\* hands it to handle_line; an error is printed and the loop retries, a
\* choice goes to handle_choice and a variable is stored
InputLine ==
    /\ pc = "input"
    /\ \E line \in LinesAt(model) :
          LET Taken(r) ==
                  IF ~r.ok
                  THEN /\ last' = Observed("reject", FALSE, FALSE, FALSE, 0)
                       /\ pc' = "input"
                       /\ UNCHANGED <<player, text_context, model, choices,
                                      next_prompt, backs, evicted, audio,
                                      odd_jumps, template_string, template_result,
                                      checked_prompt, validation,
                                      drp_mode, presence>>
                       /\ quit' = take(quit, Some(line), InputContext).quit
                  ELSE IF r.kind = "Choice" THEN HandleChoice(r.i)
                  ELSE HandleVariable(line)
          IN  Taken(handle_line(line, InputContext))

NextLines ==
    \/ Next
    \/ InputLine

\* a play-through in which the player types lines of every kind
SpecLines == Init /\ [][NextLines]_vars

\* take_input on a failed line read: InputController::take yields Quit and
\* handle_quit either leaves the loop with Shutdown or retries the input
QuitSignal ==
    /\ pc = "input"
    /\ LET Taken(taken) ==
               /\ quit' = taken.quit
               /\ IF handle_quit(taken.result.shutdown) = "Shutdown"
                  THEN /\ pc' = "shutdown"
                       /\ last' = Observed("shutdown", TRUE, FALSE, FALSE, 0)
                  ELSE /\ pc' = "input"
                       /\ last' = Observed("quit", TRUE, FALSE, FALSE, 0)
       IN  Taken(take(quit, None, InputContext))
    /\ UNCHANGED <<player, text_context, model, choices, next_prompt, backs,
                   evicted, audio, odd_jumps, template_string, template_result,
                   checked_prompt, validation, drp_mode, presence>>

\* a play-through in which the player picks choices, types lines and signals
\* quit
NextQuit ==
    \/ LoopStep
    \/ InputChoice
    \/ InputVariable
    \/ InputLine
    \/ QuitSignal

SpecQuit == Init /\ [][NextQuit]_vars

\* a play-through in which the player may change the display language
NextLang ==
    \/ Next
    \/ InputLang

SpecLang == Init /\ [][NextLang]_vars

----------------------------------------------------------------------------
(* text/templating.rs on its own: resolutions of bounded strings *)

\* the longest string drawn from the alphabet
MaxContentLen == 4

ContentAlphabet == {"<", ">", "(", ")", "a"}

S_nage_lang == <<"n", "a", "g", "e", ":", "l", "a", "n", "g">>
S_xx == <<"x", "x">>

\* the strings resolved: every string over the alphabet up to the bound, a
\* translation key, and spans naming the scripts and the language global
Contents ==
    UNION {[1..k -> ContentAlphabet] : k \in 0..MaxContentLen}
    \cup {S_k, T_lang, T_one, T_no, T_bad, <<"<">> \o T_one \o <<">">>,
          <<"a">> \o T_bad, T_one \o T_lang, <<"(">> \o S_sp \o <<")">>,
          <<"(">> \o S_rd \o <<")">> \o T_one}

\* a variable value holding a script span and a variable span: `(one)<a>`
V_spans == <<"(", "o", "n", "e", ")", "<", "a", ">">>

\* the contexts resolved against: a is undefined, "b" or `(one)<a>`, a player variable
\* may bear the name of the language global; "xx" has no translation file
Contexts ==
    {TextContextNew({}, variables, lang) :
        variables \in {EmptyMap, S_a :> S_b, S_a :> V_spans,
                       (S_a :> S_b) @@ (S_nage_lang :> S_x)},
        lang \in {S_en, S_fr, S_xx}}

InitFill ==
    /\ template_string \in Contents
    /\ text_context \in Contexts
    /\ template_result = None
    /\ player = PlayerNew
    /\ pc = "resolve"
    /\ model = NoModel
    /\ choices = <<>>
    /\ next_prompt = NoPath
    /\ last = Observed("new", TRUE, FALSE, FALSE, 0)
    /\ backs = 0
    /\ evicted = FALSE
    /\ audio = AudioNew
    /\ checked_prompt = [choices |-> <<>>]
    /\ validation = None
    /\ drp_mode = RichPresenceModeId
    /\ presence = None
    /\ quit = FALSE
    /\ odd_jumps = FALSE

\* TemplatableString::fill on the content
ApplyFill ==
    /\ pc = "resolve"
    /\ template_result = None
    /\ template_result' = Some([pass |-> "fill", result |-> fill(template_string, text_context)])
    /\ UNCHANGED <<player, pc, text_context, model, choices, next_prompt, last,
                   backs, evicted, audio, odd_jumps,
                   template_string, checked_prompt, validation,
                   drp_mode, presence, quit>>

\* one scanning pass of TemplatableString::template on the content: the
\* script pass or the variable pass
ApplyTemplate ==
    /\ pc = "resolve"
    /\ template_result = None
    /\ \E pass \in {"script", "var"} :
          template_result' = Some([pass |-> pass,
                          result |-> IF pass = "script"
                                     THEN template(template_string, "(", ")", pass,
                                                   text_context)
                                     ELSE template(template_string, "<", ">", pass,
                                                   text_context)])
    /\ UNCHANGED <<player, pc, text_context, model, choices, next_prompt, last,
                   backs, evicted, audio, odd_jumps,
                   template_string, checked_prompt, validation,
                   drp_mode, presence, quit>>

NextFill ==
    \/ ApplyFill
    \/ ApplyTemplate

SpecFill == InitFill /\ [][NextFill]_vars

----------------------------------------------------------------------------
(* core/prompt.rs and core/choice.rs on their own: validations of bounded
   prompts against the resources of the modelled game *)

\* the most choices a prompt drawn from the shapes has
MaxChoices == 2

\* the shapes of a choice: each of response, input and ending present or
\* not; no jump, a jump to a prompt of the game, to a prompt the game lacks,
\* or to a templated prompt name
ChoiceShapes ==
    {[NoChoice EXCEPT !.response = r, !.input = i, !.jump = j, !.ending = e] :
        r \in {None, Some(<<"r">>)},
        i \in {None, Some([name |-> S_n, text |-> None])},
        j \in {None, JumpTo(S_h), JumpTo(S_z), JumpTo(T_n)},
        e \in {None, Some(<<"e">>)}}

SoundNamed(name, channel) ==
    [name |-> Some(name), channel |-> channel,
     mode |-> [value |-> Some("Overwrite"), template |-> None]]

\* lone choices whose jump names its file, and lone choices that refer to
\* sounds, channels and info pages the game has or lacks
ExtraChoices ==
    {[Responding EXCEPT !.jump = Some([file |-> f, prompt |-> n])] :
        f \in {Some(S_m), Some(S_x), Some(T_n)}, n \in {S_e, S_z}}
    \cup {[Responding EXCEPT !.jump = JumpTo(S_h),
                             !.sounds = Some(<<SoundNamed(n, c)>>)] :
             n \in {S_en, S_z}, c \in {S_c, S_z}}
    \cup {[Responding EXCEPT !.jump = JumpTo(S_h), !.info_pages = Some(<<n>>)] :
             n \in {S_b, S_z}}

CheckedPrompts ==
    {[choices |-> cs] :
        cs \in UNION {[1..k -> ChoiceShapes] : k \in 0..MaxChoices}}
    \cup {[choices |-> <<c>>] : c \in ExtraChoices}

InitValidate ==
    /\ checked_prompt \in CheckedPrompts
    /\ validation = None
    /\ drp_mode = RichPresenceModeId
    /\ presence = None
    /\ quit = FALSE
    /\ odd_jumps = FALSE
    /\ player = PlayerNew
    /\ pc = "validate"
    /\ text_context = NoContext
    /\ model = NoModel
    /\ choices = <<>>
    /\ next_prompt = NoPath
    /\ last = Observed("new", TRUE, FALSE, FALSE, 0)
    /\ backs = 0
    /\ evicted = FALSE
    /\ audio = AudioNew
    /\ template_string = <<>>
    /\ template_result = None

\* Prompt::validate on the prompt as a prompt of file "m", beside what
\* Choice::validate returns for each of its choices
ApplyValidate ==
    /\ pc = "validate"
    /\ validation = None
    /\ validation' =
          Some([prompt |-> PromptValidate(checked_prompt, S_m),
                each |-> [i \in 1..Len(checked_prompt.choices) |->
                            ChoiceValidate(checked_prompt.choices[i], S_m,
                                           Len(checked_prompt.choices) > 1)]])
    /\ UNCHANGED <<player, pc, text_context, model, choices, next_prompt, last,
                   backs, evicted, audio, odd_jumps, template_string,
                   template_result, checked_prompt, drp_mode, presence, quit>>

NextValidate == ApplyValidate

SpecValidate == InitValidate /\ [][NextValidate]_vars

----------------------------------------------------------------------------
(* core/manifest.rs, core/player.rs: after_choice and the rich presence state
   on their own, for bounded players, choices and modes *)

\* the choices applied: with or without a log line and a drp detail, each
\* plain text, a variable span or a call of the failing script
PresenceTexts == {S_b, <<"<", "a", ">">>, <<"(", "b", "a", "d", ")">>}
PresenceChoices ==
    {[log |-> log, drp |-> drp] :
        log \in {None} \cup {Some(t) : t \in PresenceTexts},
        drp \in {None} \cup {Some(t) : t \in PresenceTexts \cup {S_l}}}

\* the players: a new player, one without history, one whose latest entry
\* leads to m/q; the variable a is undefined or "b"
PresencePlayers ==
    {[PlayerNew EXCEPT !.history = history, !.variables = variables] :
        history \in {<<>>, <<HistoryEntryNew(EntryPath)>>,
                     <<HistoryEntryNew(EntryPath),
                       HistoryEntryNew([file |-> S_m, prompt |-> <<"q">>])>>},
        variables \in {EmptyMap, S_a :> S_b}}

PresenceModes ==
    {RichPresenceModeId, RichPresenceModeCustom(TRUE), RichPresenceModeCustom(FALSE)}

InitPresence ==
    /\ player \in PresencePlayers
    /\ choices \in {<<choice>> : choice \in PresenceChoices}
    /\ drp_mode \in PresenceModes
    /\ presence = None
    /\ quit = FALSE
    /\ pc = "presence"
    /\ text_context = NoContext
    /\ model = NoModel
    /\ next_prompt = NoPath
    /\ last = Observed("new", TRUE, FALSE, FALSE, 0)
    /\ backs = 0
    /\ evicted = FALSE
    /\ audio = AudioNew
    /\ odd_jumps = FALSE
    /\ template_string = <<>>
    /\ template_result = None
    /\ checked_prompt = [choices |-> <<>>]
    /\ validation = None

\* Player::after_choice on the choice
ApplyAfterChoice ==
    /\ pc = "presence"
    /\ presence = None
    /\ LET Then(done) ==
               /\ player' = done.player
               /\ presence' = Some([ok |-> done.ok, state |-> done.state])
       IN  Then(after_choice_drp(player, choices[1], drp_mode))
    /\ UNCHANGED <<pc, text_context, model, choices, next_prompt, last, backs,
                   evicted, audio, odd_jumps, template_string, template_result,
                   checked_prompt, validation, drp_mode, quit>>

NextPresence == ApplyAfterChoice

SpecPresence == InitPresence /\ [][NextPresence]_vars

----------------------------------------------------------------------------
(* Properties of the choose/back round trip *)

\* the inputs take_input can hand to Player::choose at a prompt of this model
InputsOf(prompt_model) ==
    IF prompt_model.kind = "Input"
    THEN {Some([name |-> prompt_model.name, value |-> value]) : value \in TypedLines}
    ELSE {None}

\* the latest history entry of a player whose history is not empty
Latest(p) == p.history[Len(p.history)]

\* C1: at every input state, for every usable choice with a jump whose entry
\* is neither locked nor a redirect and whose push stays within the cap,
\* Player::choose followed by Player::back succeeds and leaves Notes,
\* Variables and the history length as they were before the choice.
C1_ChooseBackRestores ==
    pc = "input" =>
        \A i \in 1..Len(choices) : \A input \in InputsOf(model) :
            LET c == choose(player, ChoiceAt(i), input, model, text_context)
                b == back(c.player)
            IN  (c.ok /\ c.pushed /\ ~c.evict
                 /\ ~Latest(c.player).locked /\ ~Latest(c.player).redirect)
                => /\ b.ok
                   /\ b.player.notes = player.notes
                   /\ b.player.variables = player.variables
                   /\ Len(b.player.history) = Len(player.history)

\* the game loop's iterations over Redirect prompts from player p on:
\* [ok, player, n (the entries the chain pushed), clean]; clean records that
\* every entry pushed named pairwise distinct notes, each of which changed
\* Notes when it was applied
EntryClean(notes, entry) ==
    IsNone(entry.notes)
    \/ LET es == Unwrap(entry.notes)
       IN  /\ \A i, j \in 1..Len(es) : i # j => es[i].value # es[j].value
           /\ \A i \in 1..Len(es) : es[i].take = (es[i].value \in notes)

RECURSIVE FollowRedirects(_, _, _)
FollowRedirects(p, n, clean) ==
    LET v == Visit(p)
        c == RedirectIteration(p)
        stop(ok) == [ok |-> ok, player |-> p, n |-> n, clean |-> clean]
    IN  IF ~v.ok THEN stop(FALSE)
        ELSE IF v.model.kind # "Redirect" THEN stop(TRUE)
        ELSE IF n > HistorySize \/ ~c.ok \/ ~c.pushed THEN stop(FALSE)
        ELSE FollowRedirects(c.player, n + 1,
                             clean /\ EntryClean(p.notes, Latest(c.player)))

\* none of the latest k entries of a history is locked
NoneLocked(history, k) ==
    \A i \in 1..Len(history) : i > Len(history) - k => ~history[i].locked

\* what the game loop does with the i-th usable choice of the visited prompt
HandleInput(i, input) ==
    IF IsSome(input)
    THEN TakeVariable(player, ChoiceAt(i), model, Unwrap(input).value, text_context)
    ELSE choose_full(player, ChoiceAt(i), None, model, text_context)

C3_HistoryNeverEmpty == Len(player.history) >= 1

\* a sequence without its last element
Front(seq) == SubSeq(seq, 1, Len(seq) - 1)

\* C4: the history never holds more than HistorySize entries; every push of
\* Player::choose appends the new entry to the history as it was, and when
\* that makes HistorySize + 1 entries exactly the oldest one is removed, the
\* others keeping their order.
C4_HistoryCapped ==
    /\ [](Len(player.history) <= HistorySize)
    /\ [][(last'.op = "choose" /\ last'.pushed) =>
             /\ Len(player'.history) >= 1
             /\ Front(player'.history) =
                    IF Len(player.history) + 1 > HistorySize
                    THEN Tail(player.history) ELSE player.history]_vars

\* a choose has just evicted the oldest entry of a full history
C4_Witness ==
    last.op = "choose" /\ last.evict /\ Len(player.history) = HistorySize

\* C5: a back command typed when the history holds exactly one entry, or
\* when the latest entry is locked, fails, leaves the whole player (Notes,
\* Variables, log, history) unchanged, and the loop keeps taking input at the
\* same prompt.
C5_BackRefused ==
    [][(pc = "input" /\ last'.op = "back"
        /\ Len(player.history) >= 1
        /\ (Len(player.history) = 1 \/ Latest(player).locked)) =>
           /\ ~last'.ok
           /\ player' = player
           /\ pc' = "input"
           /\ UNCHANGED <<text_context, model, choices, next_prompt>>]_vars

\* a back command has just been refused on a locked latest entry with
\* other entries beneath it
C5_Witness ==
    /\ pc = "input" /\ last.op = "back" /\ ~last.ok
    /\ Len(player.history) >= 2 /\ Latest(player).locked

\* C6: once the cap has evicted an entry, no more than HistorySize back
\* commands succeed in a row, and a back command only ever shortens the
\* history to one of its prefixes: an evicted entry never returns.
C6_EvictionLimitsBack ==
    /\ evicted => backs <= HistorySize
    /\ pc = "input" =>
           LET b == RuntimeBack(player)
           IN  b.player.history = SubSeq(player.history, 1, Len(b.player.history))

\* after an eviction, back commands succeeded and then one was refused
C6_Witness ==
    evicted /\ backs >= 2 /\ last.op = "back" /\ ~last.ok

\* the variables the modelled choices set
VariableNames == {S_g, S_n}

\* j back commands in a row: [ok, player]
RECURSIVE BackN(_, _)
BackN(p, j) ==
    IF j = 0 THEN [ok |-> TRUE, player |-> p]
    ELSE LET b == RuntimeBack(p)
         IN  IF ~b.ok THEN [ok |-> FALSE, player |-> b.player]
             ELSE BackN(b.player, j - 1)

\* the latest k entries of history h are unlocked, not redirects, and set v
Stacked(h, v, k) ==
    /\ k <= Len(h)
    /\ \A i \in 1..Len(h) : i > Len(h) - k =>
           /\ IsSome(h[i].variables) /\ v \in DOMAIN Unwrap(h[i].variables)
           /\ ~h[i].locked /\ ~h[i].redirect

EntryOf(h, i, v) == Unwrap(h[i].variables)[v]

\* C7: when the latest k entries each set variable v, v holds the value of
\* the latest one, every entry after the first of them records as `previous`
\* the value the entry beneath it set, and j <= k successful back commands
\* leave v at the value set by the entry k - j of them, or, for j = k, at
\* what the first of them recorded as previous (absent when it recorded none).
C7_StackedPrevious ==
    \A v \in VariableNames : \A k \in 1..Len(player.history) :
        Stacked(player.history, v, k) =>
            LET h == player.history
                n == Len(h)
            IN  /\ MapGet(player.variables, v) = Some(EntryOf(h, n, v).value)
                /\ \A i \in 1..n : (i > n - k + 1) =>
                       EntryOf(h, i, v).previous = Some(EntryOf(h, i - 1, v).value)
                /\ \A j \in 1..k :
                       LET b == BackN(player, j)
                       IN  b.ok =>
                               MapGet(b.player.variables, v) =
                                   IF j < k THEN Some(EntryOf(h, n - j, v).value)
                                   ELSE EntryOf(h, n - k + 1, v).previous

\* one back command has just undone the later of two stacked applications
\* to g, whose value is again the one the earlier application set
C7_Witness ==
    /\ last.op = "back" /\ last.ok /\ backs = 1
    /\ Stacked(player.history, S_g, 1)
    /\ EntryOf(player.history, Len(player.history), S_g).previous = None
    /\ MapGet(player.variables, S_g) = Some(DEFAULT_VALUE \o <<"+">>)

----------------------------------------------------------------------------
(* Properties of the choice gate *)

\* a string the template resolver leaves as it is
IsStatic(str) ==
    /\ ~Contains(str, "(") /\ ~Contains(str, "<")
    /\ \A lang \in DOMAIN Translations : str \notin DOMAIN Translations[lang]

\* C8: for a usable choice of a Response prompt whose once symbol X is a
\* static string, X is absent before the choice is applied, X is in Notes
\* after Player::choose and the choice is then not usable, and Player::back
\* on the entry just pushed removes X and makes the choice usable again.
C8_OnceRoundTrip ==
    (pc = "input" /\ model.kind = "Response") =>
        \A i \in 1..Len(choices) :
            LET choice == ChoiceAt(i)
                X == Unwrap(Unwrap(choice.notes).once)
                c == choose(player, choice, None, model, text_context)
                b == back(c.player)
            IN  (/\ IsSome(choice.notes) /\ IsSome(Unwrap(choice.notes).once)
                 /\ IsStatic(X)
                 /\ can_player_use(choice, player.notes, TextContextOf(player))
                        = Ok(TRUE)
                 /\ c.ok /\ c.pushed /\ ~Latest(c.player).locked)
                => /\ X \notin player.notes
                   /\ X \in c.player.notes
                   /\ can_player_use(choice, c.player.notes,
                                     TextContextOf(c.player)) = Ok(FALSE)
                   /\ b.ok
                   /\ X \notin b.player.notes
                   /\ can_player_use(choice, b.player.notes,
                                     TextContextOf(b.player)) = Ok(TRUE)

\* every choice of every prompt of the game, as [prompt, choice]
AllChoices ==
    UNION {UNION {{[prompt |-> Prompts[f][q], choice |-> Prompts[f][q].choices[i]] :
                      i \in 1..Len(Prompts[f][q].choices)} :
                  q \in DOMAIN Prompts[f]} :
           f \in DOMAIN Prompts}

RequireOf(choice) ==
    IF IsSome(choice.notes) THEN UnwrapOr(Unwrap(choice.notes).require, <<>>)
    ELSE <<>>
OnceOf(choice) ==
    IF IsSome(choice.notes) THEN Unwrap(choice.notes).once ELSE None

\* how one requirement stands against the notes: "error" when its
\* expectation or its name fails to resolve, else "mismatch" or "match"
RequirementStatus(r, notes, ctx) ==
    LET has == get_value(r.has, ctx)
        name == fill(r.name, ctx)
    IN  IF ~has.ok \/ ~name.ok THEN "error"
        ELSE IF has.val # (name.val \in notes) THEN "mismatch"
        ELSE "match"

\* C9: for every choice whose requirement expectations, requirement names and
\* once symbol all resolve, can_player_use answers false exactly when some
\* requirement mismatches the notes or the once symbol is among the notes.
C9_GateDecides ==
    \A pc_ \in AllChoices :
        LET choice == pc_.choice
            ctx == TextContextOf(player)
            require == RequireOf(choice)
            once == OnceOf(choice)
            resolves ==
                /\ \A j \in 1..Len(require) :
                       RequirementStatus(require[j], player.notes, ctx) # "error"
                /\ IsSome(once) => fill(Unwrap(once), ctx).ok
            blocked ==
                \/ \E j \in 1..Len(require) :
                       RequirementStatus(require[j], player.notes, ctx) = "mismatch"
                \/ IsSome(once) /\ fill(Unwrap(once), ctx).val \in player.notes
        IN  resolves => can_player_use(choice, player.notes, ctx) = Ok(~blocked)

\* at the hub, the one-off choice has been left out of the usable choices
\* because its once symbol is among the notes, its requirement matching
C9_Witness ==
    /\ pc = "input" /\ next_prompt.prompt = S_h /\ last.op = "visit"
    /\ S_x \in player.notes /\ S_a \notin player.notes
    /\ \A i \in 1..Len(choices) : choices[i] # 2

\* C10: requirements are judged in list order and the once symbol last: when
\* the first requirement that does not match is a mismatch the answer is
\* false, whatever fails to resolve after it; when it is a resolution error,
\* or when all match and the once symbol fails to resolve, can_player_use
\* fails and so does usable_choices on the prompt holding the choice.
C10_GateOrder ==
    \A pc_ \in AllChoices :
        LET choice == pc_.choice
            ctx == TextContextOf(player)
            require == RequireOf(choice)
            once == OnceOf(choice)
            status(j) == RequirementStatus(require[j], player.notes, ctx)
            first == {j \in 1..Len(require) :
                         status(j) # "match" /\ \A k \in 1..(j - 1) : status(k) = "match"}
            r == can_player_use(choice, player.notes, ctx)
            u == usable_choices(pc_.prompt, player.notes, ctx)
        IN  /\ \A j \in first : status(j) = "mismatch" => r = Ok(FALSE)
            /\ \A j \in first : status(j) = "error" => ~r.ok /\ ~u.ok
            /\ (first = {} /\ IsSome(once) /\ ~fill(Unwrap(once), ctx).ok)
                   => ~r.ok /\ ~u.ok

\* the loop takes input at "q" with note a held: the requirement name and the
\* once symbol that fail to resolve come after a mismatch and were not raised
C10_Witness ==
    /\ pc = "input" /\ next_prompt.prompt = S_q /\ last.op = "visit"
    /\ S_a \in player.notes /\ text_context.notes = player.notes

----------------------------------------------------------------------------
(* Properties of the prompt model and of the usable choices *)

\* every prompt of the game
AllPrompts == UNION {{Prompts[f][q] : q \in DOMAIN Prompts[f]} : f \in DOMAIN Prompts}

\* the variant the shape of a prompt's choices calls for
ShapeKind(prompt) ==
    LET lone == Len(prompt.choices) = 1
        c == prompt.choices[1]
    IN  IF lone /\ IsSome(c.input) THEN "Input"
        ELSE IF lone /\ IsNone(c.input) /\ IsNone(c.response) /\ IsSome(c.ending)
        THEN "Ending"
        ELSE IF lone /\ IsNone(c.input) /\ IsNone(c.response) /\ IsNone(c.ending)
        THEN "Redirect"
        ELSE "Response"

VisitedPrompt == PromptGet(next_prompt).val

\* the usable choices the loop holds are exactly the choices of the visited
\* prompt that can_player_use accepts, in the order of the prompt
UsableAreFiltered ==
    /\ \A k \in 1..Len(choices) : choices[k] \in 1..Len(VisitedPrompt.choices)
    /\ \A k, l \in 1..Len(choices) : k < l => choices[k] < choices[l]
    /\ {choices[k] : k \in 1..Len(choices)} =
           {i \in 1..Len(VisitedPrompt.choices) :
                can_player_use(VisitedPrompt.choices[i], text_context.notes,
                               text_context) = Ok(TRUE)}

\* C12 as stated: while the loop takes input at a Response prompt, the usable
\* choices are exactly the choices can_player_use accepts, in the prompt's
\* order, and the line displayed for each is numbered by the choice's 1-based
\* place in the prompt's full choice list.
C12_UsableKeepIndex ==
    (pc = "input" /\ model.kind = "Response") =>
        LET d == display(VisitedPrompt, choices, text_context)
        IN  /\ UsableAreFiltered
            /\ d.ok /\ Len(d.val) = Len(choices)
            /\ \A k \in 1..Len(choices) : d.val[k].index = choices[k]

\* C12 amended: the usable choices are exactly the choices can_player_use
\* accepts, in the prompt's order; the line displayed for the k-th of them is
\* numbered k, its place among the usable choices, and a choice taken at the
\* prompt is one of the usable choices, picked by that number.
C12_UsableRenumbered ==
    /\ []((pc = "input" /\ model.kind = "Response") =>
            LET d == display(VisitedPrompt, choices, text_context)
            IN  /\ UsableAreFiltered
                /\ d.ok /\ Len(d.val) = Len(choices)
                /\ \A k \in 1..Len(choices) : d.val[k].index = k)
    /\ [][(pc = "input" /\ model.kind = "Response" /\ last'.op = "choose") =>
             \E k \in 1..Len(choices) :
                 player' = choose_full(player, VisitedPrompt.choices[choices[k]],
                                       None, model, text_context).player]_vars

\* the loop takes input at the hub with its second choice unusable: the
\* choices after it are displayed one number lower than their place
C12_Witness ==
    /\ pc = "input" /\ model.kind = "Response" /\ next_prompt.prompt = S_h
    /\ Len(choices) >= 2 /\ choices[1] = 1 /\ choices[2] = 3

----------------------------------------------------------------------------
(* Properties of Player::choose and of what follows it *)

\* C13: whenever the loop is about to visit a prompt, for every choice of the
\* game,
\* to_history_entry returns none exactly when the choice has no jump (an
\* ending beside the jump changes nothing), and Player::choose with a choice
\* without a jump succeeds, pushes nothing and leaves the player (Notes,
\* Variables, info pages, history) as it was.  In the loop, a choice taken
\* without a push leaves Notes, Variables, info pages and history as they
\* were, but for the typed line, which take_input stores in its variable
\* after Player::choose at an Input prompt.
C13_NoJumpNoEntry ==
    /\ []((pc = "visit" /\ Len(player.history) >= 1) =>
            \A pc_ \in AllChoices :
                LET ctx == TextContextOf(player)
                    m == PromptModelOf(pc_.prompt, ctx).val
                IN  \A input \in InputsOf(m) :
                        /\ to_history_entry(pc_.choice, Latest(player), input,
                                            player.variables, m, ctx).some
                               = IsSome(pc_.choice.jump)
                        /\ IsNone(pc_.choice.jump) =>
                               LET c == choose(player, pc_.choice, input, m, ctx)
                               IN  c.ok /\ ~c.pushed /\ c.player = player)
    /\ [][(last'.op = "choose" /\ last'.ok /\ ~last'.pushed) =>
             /\ player'.notes = player.notes
             /\ IF model.kind = "Input"
                THEN \E value \in TypedLines :
                         player'.variables =
                             MapInsert(player.variables, model.name, value)
                ELSE player'.variables = player.variables
             /\ player'.info_pages = player.info_pages
             /\ player'.history = player.history]_vars

\* the game has ended by the hub's choice without a jump, which lists the
\* note x, the variable g and an info page: none of them was applied
C13_Witness ==
    /\ pc = "done" /\ last.op = "choose" /\ last.ok /\ ~last.pushed
    /\ Len(player.history) >= 1 /\ Latest(player).path.prompt = S_h
    /\ S_x \notin player.notes /\ S_g \notin DOMAIN player.variables
    /\ player.info_pages = {}

\* the variables a choice applies statically
StaticOf(choice) ==
    IF IsSome(choice.variables) THEN Unwrap(choice.variables) ELSE EmptyMap

\* every variable the modelled game names
AllVariableNames == VariableNames \cup {S_v, S_w}

\* the variables an input is tried with against a choice: every variable of
\* the game when the choice applies variables statically, one otherwise
InputNamesFor(choice) ==
    IF IsSome(choice.variables) THEN AllVariableNames ELSE {S_n}

\* C14: whenever the loop is about to visit a prompt, for every choice of the
\* game and every input naming a variable, create_variable_entries yields entries for exactly the input's
\* variable and the choice's static ones; the input's variable carries the
\* input's value, also when a static application names it too, every other
\* one its filled static value, and each records the variable's current
\* value as previous.  In the loop, a line typed at an Input prompt leaves the
\* typed value in Variables and, when the choice pushed a history entry, in
\* that entry, with the value the variable had before as previous.
C14_InputTakesPrecedence ==
    /\ [](pc = "visit" =>
          \A pc_ \in AllChoices : \A name \in InputNamesFor(pc_.choice) :
          \A value \in TypedLines :
            LET ctx == TextContextOf(player)
                static == StaticOf(pc_.choice)
                r == create_variable_entries(pc_.choice,
                                             Some([name |-> name, value |-> value]),
                                             player.variables, ctx)
            IN  r.ok =>
                   /\ IsSome(r.val)
                   /\ DOMAIN Unwrap(r.val) = (DOMAIN static) \cup {name}
                   /\ Unwrap(r.val)[name] =
                          [value |-> value, previous |-> MapGet(player.variables, name)]
                   /\ \A v \in (DOMAIN static) \ {name} :
                          Unwrap(r.val)[v] =
                              [value |-> fill(static[v], ctx).val,
                               previous |-> MapGet(player.variables, v)])
    /\ [][(pc = "input" /\ model.kind = "Input" /\ last'.op = "choose" /\ last'.ok) =>
             \E value \in TypedLines :
                 /\ MapGet(player'.variables, model.name) = Some(value)
                 /\ last'.pushed =>
                       /\ Len(player'.history) >= 1
                       /\ IsSome(Latest(player').variables)
                       /\ model.name \in DOMAIN Unwrap(Latest(player').variables)
                       /\ Unwrap(Latest(player').variables)[model.name] =
                              [value |-> value,
                               previous |-> MapGet(player.variables, model.name)]
                       /\ DOMAIN Unwrap(Latest(player').variables) =
                              DOMAIN StaticOf(VisitedPrompt.choices[1])
                              \cup {model.name}]_vars

\* a line has just been typed at the input prompt, whose static variables
\* name the input's variable n too: the entry and Variables hold the typed
\* line for n, and the static-only variable v is in the entry as well
C14_Witness ==
    /\ last.op = "choose" /\ last.ok /\ last.pushed /\ Len(player.history) >= 2
    /\ player.history[Len(player.history) - 1].path.prompt = S_i
    /\ IsSome(Latest(player).variables)
    /\ DOMAIN Unwrap(Latest(player).variables) = {S_n, S_v}
    /\ Unwrap(Latest(player).variables)[S_n].value = S_b
    /\ MapGet(player.variables, S_n) = Some(S_b)


----------------------------------------------------------------------------
(* Properties of the log line *)

\* the variable span naming `name`
SpanOf(name) == <<"<">> \o name \o <<">">>

\* C15: at every input state, for every usable choice with a log message and
\* every input the loop can hand over, a successful choice pushes an entry
\* whose log field is the boolean TRUE and appends one log line, which is the
\* log text filled against the Notes and Variables the player has after the
\* choice (for an Input prompt, after the typed value was stored); when the
\* log text is the span of the variable the typed value is stored in, the
\* line is the typed value.  An entry of a choice without a log message
\* records FALSE.
C15_LogAfterMutation ==
    pc = "input" =>
        \A i \in 1..Len(choices) : \A input \in InputsOf(model) :
            LET choice == ChoiceAt(i)
                c == HandleInput(i, input)
                after == c.player
                line == after.log[Len(after.log)]
            IN  /\ (c.ok /\ c.pushed) =>
                       /\ Latest(after).log \in BOOLEAN
                       /\ Latest(after).log = IsSome(choice.log)
                /\ (c.ok /\ c.pushed /\ IsSome(choice.log)) =>
                       /\ Len(after.log) = Len(player.log) + 1
                       /\ line = fill(Unwrap(choice.log),
                                      TextContextNew(after.notes, after.variables,
                                                     after.lang)).val
                       /\ (IsSome(input)
                           /\ Unwrap(choice.log) = SpanOf(Unwrap(input).name))
                          => line = Unwrap(input).value

\* C15 witness: the player typed "b" at the input prompt, whose log text is
\* the span of the variable the line is stored in, and the line logged is "b"
\* though the variable was not "b" before
C15_Witness ==
    /\ last.op = "choose" /\ last.ok /\ last.pushed
    /\ Latest(player).log
    /\ Len(player.log) >= 1
    /\ player.log[Len(player.log)] = S_b
    /\ S_n \in DOMAIN Unwrap(Latest(player).variables)
    /\ Unwrap(Latest(player).variables)[S_n].previous # Some(S_b)


----------------------------------------------------------------------------
(* Properties of the sound actions *)

\* C16 as stated: at every input state, for every usable choice with sound
\* actions, the submissions a successful choice makes on the audio players
\* are those its sound actions resolve to against a context built from the
\* Notes and Variables the player has after the choice's mutation.
C16_SoundsAfterMutation ==
    pc = "input" =>
        \A i \in 1..Len(choices) : \A input \in InputsOf(model) :
            LET choice == ChoiceAt(i)
                c == HandleInput(i, input)
                resolved == SoundLoop(c.player, Unwrap(choice.sounds), 1,
                                      TextContextOf(c.player), <<>>)
            IN  (c.ok /\ IsSome(choice.sounds))
                => /\ resolved.ok
                   /\ c.sounds = resolved.val


----------------------------------------------------------------------------
(* Properties of the context the loop resolves with *)

\* what the loop does with the i-th usable choice when it resolves with ctx
HandleInputWith(i, input, ctx) ==
    IF IsSome(input)
    THEN TakeVariable(player, ChoiceAt(i), model, Unwrap(input).value, ctx)
    ELSE choose_full(player, ChoiceAt(i), None, model, ctx)

\* C17 as stated: at every input state, also after the lang command made the
\* loop take input again, the input context and the outcome of every choice
\* the player can make (the history entry pushed, the Notes and Variables
\* left, the sounds submitted) are those resolved against the language, Notes
\* and Variables the player has at that moment.
C17_ResolvesWithCurrentState ==
    pc = "input" =>
        LET current == TextContextOf(player)
            prompt == PromptGet(next_prompt).val
        IN  /\ next_input_context(prompt, model, choices, text_context)
               = next_input_context(prompt, model, choices, current)
            /\ \A i \in 1..Len(choices) : \A input \in InputsOf(model) :
                   HandleInputWith(i, input, text_context)
                   = HandleInputWith(i, input, current)


----------------------------------------------------------------------------
(* Properties of TemplatableString::fill and template *)

\* the resolution made, once one was applied
Resolved == Unwrap(template_result)
FillApplied == IsSome(template_result) /\ Resolved.pass = "fill"

HasChar(str, c) == \E i \in 1..Len(str) : str[i] = c
IsTranslationKey(str, ctx) ==
    IsSome(lang_file(ctx.lang)) /\ str \in DOMAIN Unwrap(lang_file(ctx.lang))

\* the name of the string when it is one variable span around a name without
\* delimiters
IsVariableSpan(str) ==
    /\ Len(str) >= 2
    /\ str[1] = "<" /\ str[Len(str)] = ">"
    /\ \A i \in 2..(Len(str) - 1) : str[i] \notin {"<", ">", "(", ")"}
SpanName(str) == SubSeq(str, 2, Len(str) - 1)

\* C18: once fill was applied, a string without `(` and `<` that is not a
\* translation key came back unchanged; a `<name>` span whose name is neither
\* a nage: global nor a key of the context's variables came back as Ok of
\* UNDEFINED; and `<nage:lang>` came back as the context's language code,
\* also when a player variable bears that name.
C18_FillBasics ==
    FillApplied =>
        LET ctx == text_context
            str == template_string
        IN  /\ (~HasChar(str, "(") /\ ~HasChar(str, "<")
                /\ ~IsTranslationKey(str, ctx))
               => Resolved.result = Ok(str)
            /\ (IsVariableSpan(str)
                /\ IsNone(global_variable(SpanName(str), ctx))
                /\ SpanName(str) \notin DOMAIN ctx.variables)
               => Resolved.result = Ok(DEFAULT_VALUE)
            /\ str = T_lang => Resolved.result = Ok(ctx.lang)

\* C18 witness: `<nage:lang>` was filled to the language code "fr" against a
\* context whose variables hold another value under the name nage:lang
C18_Witness ==
    /\ FillApplied
    /\ template_string = T_lang
    /\ S_nage_lang \in DOMAIN text_context.variables
    /\ text_context.variables[S_nage_lang] # text_context.lang
    /\ Resolved.result = Ok(S_fr)

\* C18 witness of the other cases: an undefined `<a>` was filled to UNDEFINED
C18_WitnessUndefined ==
    /\ FillApplied
    /\ template_string = <<"<", "a", ">">>
    /\ text_context.variables = EmptyMap
    /\ Resolved.result = Ok(DEFAULT_VALUE)


\* the pass the claim describes, from index i on, opener being the index of
\* the most recent unmatched opener (0 for none): a span is filled, every
\* character outside a span is copied, and an opener left unmatched by a
\* second opener or by the end of the string is copied with the text after it
RECURSIVE VerbatimLoop(_, _, _, _, _, _, _, _)
VerbatimLoop(str, i, before, after, pass, ctx, result, opener) ==
    IF i > Len(str)
    THEN Ok(IF opener = 0 THEN result
            ELSE result \o SubSeq(str, opener, Len(str)))
    ELSE IF str[i] = before
    THEN VerbatimLoop(str, i + 1, before, after, pass, ctx,
                      IF opener = 0 THEN result
                      ELSE result \o SubSeq(str, opener, i - 1),
                      i)
    ELSE IF str[i] = after
    THEN IF opener = 0
         THEN VerbatimLoop(str, i + 1, before, after, pass, ctx,
                           Append(result, str[i]), 0)
         ELSE LET f == Filler(pass, SubSeq(str, opener + 1, i - 1), ctx)
              IN  IF ~f.ok THEN Err
                  ELSE VerbatimLoop(str, i + 1, before, after, pass, ctx,
                                    result \o UnwrapOr(f.val, DEFAULT_VALUE), 0)
    ELSE VerbatimLoop(str, i + 1, before, after, pass, ctx,
                      IF opener = 0 THEN Append(result, str[i]) ELSE result,
                      opener)

PassApplied == IsSome(template_result) /\ Resolved.pass \in {"script", "var"}

\* C19 as stated: once a scanning pass was applied, its result is the string
\* with every span filled and every character outside a span copied
\* verbatim, a closing delimiter without an opener before it, the text before
\* a second opener and an unmatched opener with the text after it included.
C19_OutsideSpansVerbatim ==
    PassApplied =>
        Resolved.result
        = IF Resolved.pass = "script"
          THEN VerbatimLoop(template_string, 1, "(", ")", "script",
                            text_context, <<>>, 0)
          ELSE VerbatimLoop(template_string, 1, "<", ">", "var",
                            text_context, <<>>, 0)


\* the name of the script span the string ends with, when the string is text
\* without delimiters followed by one `(name)` span around a name without
\* delimiters
Delimiters == {"<", ">", "(", ")"}
EndsWithScriptSpan(str) ==
    /\ Len(str) >= 2
    /\ str[Len(str)] = ")"
    /\ \E i \in 1..(Len(str) - 1) :
          /\ str[i] = "("
          /\ \A j \in 1..(Len(str) - 1) : j # i => str[j] \notin Delimiters
ScriptSpanName(str) ==
    LET i == CHOOSE i \in 1..(Len(str) - 1) : str[i] = "("
    IN  SubSeq(str, i + 1, Len(str) - 1)
ScriptSpanPrefix(str) ==
    LET i == CHOOSE i \in 1..(Len(str) - 1) : str[i] = "("
    IN  SubSeq(str, 1, i - 1)

IsScriptFile(name) == file_components(name).file \in ScriptFiles
ScriptFails(name, ctx) ==
    LET c == file_components(name) IN ~ScriptEval(c.file, c.func, ctx).ok

\* C20 as stated: once fill was applied to a string that ends with a script
\* span, fill returned an error when the name is no script of the game or
\* its evaluation fails.
C20_MissingOrFailingScriptErrors ==
    (FillApplied /\ EndsWithScriptSpan(template_string)) =>
        LET name == ScriptSpanName(template_string)
        IN  (~IsScriptFile(name) \/ ScriptFails(name, text_context))
            => ~Resolved.result.ok

\* C20 amended: once fill was applied to a string that ends with a script
\* span, fill returned an error exactly when the name is a script of the game
\* whose evaluation fails; when the name is no script of the game the span
\* was replaced by UNDEFINED, like an unresolved variable.
C20_OnlyFailingScriptErrors ==
    (FillApplied /\ EndsWithScriptSpan(template_string)) =>
        LET name == ScriptSpanName(template_string)
        IN  /\ ~Resolved.result.ok
               <=> (IsScriptFile(name) /\ ScriptFails(name, text_context))
            /\ ~IsScriptFile(name)
               => Resolved.result
                  = Ok(ScriptSpanPrefix(template_string) \o DEFAULT_VALUE)

\* C20 witness: fill was applied to `(a)`, which names no script of the
\* game, and returned UNDEFINED
C20_Witness ==
    /\ FillApplied
    /\ template_string = <<"(", "a", ")">>
    /\ ~IsScriptFile(S_a)
    /\ Resolved.result = Ok(DEFAULT_VALUE)

\* C20 witness of the failing script: fill of `a(bad)` returned an error
C20_WitnessFailing ==
    /\ FillApplied
    /\ template_string = <<"a">> \o T_bad
    /\ ~Resolved.result.ok


T_sp == <<"(">> \o S_sp \o <<")">>

\* the three steps of fill, one after the other
Translated(str, ctx) == lang_file_content(str, lang_file(ctx.lang))
Scripted(str, ctx) == template(Translated(str, ctx), "(", ")", "script", ctx)
Interpolated(str, ctx) ==
    IF ~Scripted(str, ctx).ok THEN Err
    ELSE template(Scripted(str, ctx).val, "<", ">", "var", ctx)

\* C21: once fill was applied, its result is the variable pass over the
\* output of the script pass over the translation of the whole string (or
\* over the string itself when it is no key of the active language table);
\* so a key whose translation is a variable span came back with the span
\* replaced, and `(sp)`, whose script returns the span `<a>`, came back as
\* the value of a, or UNDEFINED when a is not defined.
C21_FillOrder ==
    FillApplied =>
        LET ctx == text_context
            str == template_string
        IN  /\ Resolved.result = Interpolated(str, ctx)
            /\ IsTranslationKey(str, ctx)
               => /\ Translated(str, ctx) = Unwrap(lang_file(ctx.lang))[str]
                  /\ Resolved.result.ok
                  /\ ~Contains(Resolved.result.val, "<")
            /\ str = T_sp
               => Resolved.result
                  = Ok(UnwrapOr(MapGet(ctx.variables, S_a), DEFAULT_VALUE))

\* C21 witness: fill of `(sp)` against a context in which a is "b" came back
\* as "b"
C21_Witness ==
    /\ FillApplied
    /\ template_string = T_sp
    /\ MapGet(text_context.variables, S_a) = Some(S_b)
    /\ Resolved.result = Ok(S_b)

\* C21 witness of the translation: fill of the key k in language "en", whose
\* translation is `<g>`, came back as UNDEFINED
C21_WitnessTranslated ==
    /\ FillApplied
    /\ template_string = S_k
    /\ text_context.lang = S_en
    /\ Resolved.result = Ok(DEFAULT_VALUE)


----------------------------------------------------------------------------
(* Properties of validation *)

\* the validation made, once it was applied
Validated == Unwrap(validation)
ValidateApplied == IsSome(validation)
CheckedChoices == checked_prompt.choices

\* C22 as stated: once validation was applied, Choice::validate accepted a
\* choice only if it has exactly one of jump and ending.
C22_ExactlyOneOfJumpEnding ==
    ValidateApplied =>
        \A i \in 1..Len(CheckedChoices) :
            Validated.each[i].ok
            => (IsSome(CheckedChoices[i].jump) <=> IsNone(CheckedChoices[i].ending))


\* whether a jump names its target without template markers, and whether
\* the target is a prompt of the game, a missing file being file "m"
JumpIsStatic(jump) ==
    /\ ~HasChar(jump.prompt, "(") /\ ~HasChar(jump.prompt, "<")
    /\ IsSome(jump.file)
       => ~HasChar(Unwrap(jump.file), "(") /\ ~HasChar(Unwrap(jump.file), "<")
JumpTargetExists(jump) ==
    LET file == IF IsSome(jump.file) THEN Unwrap(jump.file) ELSE S_m
    IN  file \in DOMAIN Prompts /\ jump.prompt \in DOMAIN Prompts[file]

\* C23: once validation was applied, Choice::validate failed on the jump of
\* every choice whose jump is free of template markers and names a prompt
\* the index lacks; for a choice whose jump has a marker in its file or its
\* prompt name the jump passed, whatever it names, and the choice was
\* accepted unless it lacks a response in company.
C23_StaticJumpMustExist ==
    ValidateApplied =>
        \A i \in 1..Len(CheckedChoices) :
            LET choice == CheckedChoices[i]
                jump == Unwrap(choice.jump)
                v == Validated.each[i]
            IN  IsSome(choice.jump) =>
                  /\ (JumpIsStatic(jump) /\ ~JumpTargetExists(jump))
                     => (~v.ok /\ v.err = "target")
                  /\ (~JumpIsStatic(jump) \/ JumpTargetExists(jump))
                     => /\ v.err # "target"
                        /\ v.ok <=> ~(Len(CheckedChoices) > 1
                                      /\ IsNone(choice.response))

\* C23 witness: a lone choice whose jump has a templated file and names a
\* prompt no file has was accepted
C23_Witness ==
    /\ ValidateApplied
    /\ Len(CheckedChoices) = 1
    /\ CheckedChoices[1].jump = Some([file |-> Some(T_n), prompt |-> S_z])
    /\ Validated.each[1].ok

\* C23 witness of the failure: a lone choice whose static jump names a prompt
\* file "m" lacks was rejected for its target
C23_WitnessMissing ==
    /\ ValidateApplied
    /\ Len(CheckedChoices) = 1
    /\ CheckedChoices[1].jump = JumpTo(S_z)
    /\ Validated.each[1] = Invalid("target")


\* the number of the first choice without a response, 0 when every choice
\* has one
FirstWithoutResponse(all) ==
    IF \A i \in 1..Len(all) : IsSome(all[i].response) THEN 0
    ELSE CHOOSE i \in 1..Len(all) :
             /\ IsNone(all[i].response)
             /\ \A j \in 1..(i - 1) : IsSome(all[j].response)

\* C24 as stated: once validation was applied to a prompt of two or more
\* choices of which one has no response, Prompt::validate failed with the
\* error of the missing response section and the number of the first choice
\* without response; for a lone choice without response the error, if any,
\* is not that of the response section.
C24_MissingResponseNamed ==
    ValidateApplied =>
        LET first == FirstWithoutResponse(CheckedChoices)
            v == Validated.prompt
        IN  /\ (Len(CheckedChoices) >= 2 /\ first # 0)
               => (~v.ok /\ v.err = "response" /\ v.index = first)
            /\ Len(CheckedChoices) = 1 => v.err # "response"

\* C24 amended: such a prompt always failed validation, at the first choice
\* without response or before it; the error is that of the missing response
\* section, with the number of the first choice without response, when every
\* choice up to and including that one passes the jump and ending checks,
\* else it is the jump or ending error of the first choice that fails them.
C24_MissingResponseFails ==
    ValidateApplied =>
        LET first == FirstWithoutResponse(CheckedChoices)
            v == Validated.prompt
            JumpFails(i) == ~ChoiceValidate(CheckedChoices[i], S_m, FALSE).ok
        IN  /\ (Len(CheckedChoices) >= 2 /\ first # 0)
               => /\ ~v.ok
                  /\ v.index >= 1 /\ v.index <= first
                  /\ (\A i \in 1..first : ~JumpFails(i))
                     => (v.err = "response" /\ v.index = first)
                  /\ (\E i \in 1..first : JumpFails(i))
                     => /\ v.err \in {"jump", "target"}
                        /\ JumpFails(v.index)
                        /\ \A i \in 1..(v.index - 1) : ~JumpFails(i)
            /\ Len(CheckedChoices) = 1 => v.err # "response"

\* C24 witness: a prompt of two choices with jumps to h, the second without
\* response, failed with the response error of choice 2
C24_Witness ==
    /\ ValidateApplied
    /\ Len(CheckedChoices) = 2
    /\ CheckedChoices[1].jump = JumpTo(S_h) /\ IsSome(CheckedChoices[1].response)
    /\ CheckedChoices[2].jump = JumpTo(S_h) /\ IsNone(CheckedChoices[2].response)
    /\ Validated.prompt = [ok |-> FALSE, err |-> "response", index |-> 2]


\* C25 as stated: once validation was applied, a prompt whose single choice
\* carries both input and response was rejected, so an accepted prompt whose
\* model is Input has no response.
C25_InputExcludesResponse ==
    ValidateApplied =>
        LET m == PromptModelOf(checked_prompt, TextContextOf(player))
        IN  /\ (Len(CheckedChoices) = 1
                /\ IsSome(CheckedChoices[1].input)
                /\ IsSome(CheckedChoices[1].response))
               => ~Validated.prompt.ok
            /\ (Validated.prompt.ok /\ Len(CheckedChoices) >= 1
                /\ m.ok /\ m.val.kind = "Input")
               => IsNone(CheckedChoices[1].response)


\* C26 as stated: once validation was applied and accepted the prompt, every
\* sound action of every choice whose sound name and channel are free of
\* template markers names a sound file and a channel of the Audio resource,
\* so that Audio::accept succeeds on it at run time, and every info page
\* named without markers is a page of the game.
C26_StaticResourcesExist ==
    (ValidateApplied /\ Validated.prompt.ok) =>
        \A i \in 1..Len(CheckedChoices) :
            LET choice == CheckedChoices[i]
                sounds == Unwrap(choice.sounds)
                pages == Unwrap(choice.info_pages)
            IN  /\ IsSome(choice.sounds) =>
                      \A k \in 1..Len(sounds) :
                          (~is_str_templatable(sounds[k].channel)
                           /\ IsSome(sounds[k].name)
                           /\ ~is_str_templatable(Unwrap(sounds[k].name)))
                          => /\ Unwrap(sounds[k].name) \in Sounds
                             /\ sounds[k].channel \in AudioPlayers
                             /\ accept(player, sounds[k], TextContextOf(player)).ok
                /\ IsSome(choice.info_pages) =>
                      \A k \in 1..Len(pages) :
                          ~is_str_templatable(pages[k]) => pages[k] \in InfoPages


----------------------------------------------------------------------------
(* Properties of the input line *)

\* the decimal digits of a natural number, without leading zeros
RECURSIVE ToDecimal(_)
ToDecimal(n) ==
    IF n < 10 THEN <<Digits[n + 1]>>
    ELSE Append(ToDecimal(n \div 10), Digits[(n % 10) + 1])

\* a string of digits without its leading zeros, one digit being kept
RECURSIVE StripZeros(_)
StripZeros(str) ==
    IF Len(str) > 1 /\ str[1] = "0" THEN StripZeros(Tail(str)) ELSE str

\* whether the line is a numeral of the integer i: digits, after an optional
\* plus sign, that are the decimal digits of i after leading zeros
Denotes(line, i) ==
    LET digits == IF Len(line) >= 1 /\ line[1] = "+" THEN Tail(line) ELSE line
    IN  /\ Len(digits) >= 1
        /\ \A k \in 1..Len(digits) : IsDigit(digits[k])
        /\ StripZeros(digits) = ToDecimal(i)

\* C27: at every input state there is at least one usable choice; at a
\* Response prompt the input context is Choices(n), n being the number of
\* usable choices, and handle_line accepts a line as a selection exactly when
\* it is a numeral of an integer i with 1 <= i <= n, the selection being i
\* and the i-th usable choice existing; the empty line, a non-number and an
\* out-of-range number are errors.  A step that rejects a line leaves the
\* player, the context, the model and the choices as they were, the loop
\* still taking input.
C27_LineSelectsWithinRange ==
    /\ [](pc = "input" => Len(choices) >= 1)
    /\ []((pc = "input" /\ model.kind = "Response") =>
            LET n == Len(choices)
            IN  /\ InputContext.kind = "Choices" /\ InputContext.n = n
                /\ \A line \in LinesAt(model) :
                       LET r == handle_line(line, InputContext)
                       IN  /\ r.ok <=> \E i \in 1..n : Denotes(line, i)
                           /\ r.ok => /\ r.kind = "Choice"
                                      /\ Denotes(line, r.i)
                                      /\ r.i \in DOMAIN choices
                                      /\ choices[r.i] \in
                                           DOMAIN PromptGet(next_prompt).val.choices
                           /\ line = <<>> => r = LineRejected("empty")
                           /\ line \in {<<"+">>, <<"1", "+">>} => r = LineRejected("number")
                           /\ (line = <<"0">> \/ (line \in {<<"1", "0">>, <<"1", "1">>} /\ n < 10))
                              => r = LineRejected("range"))
    /\ [][last'.op = "reject" =>
            /\ pc = "input" /\ pc' = "input"
            /\ UNCHANGED <<player, text_context, model, choices, next_prompt,
                           audio>>]_vars

\* C27 witness: at a Response prompt a line was rejected and the loop takes
\* input again
C27_Witness ==
    /\ last.op = "reject"
    /\ pc = "input"
    /\ model.kind = "Response"
    /\ Len(choices) < 9

\* C27 witness of the refusal: the loop stopped at a prompt none of whose
\* choices is usable
C27_WitnessNoChoices ==
    /\ pc = "crashed"
    /\ ~Visit(player).ok
    /\ Visit(player).why = "empty"


----------------------------------------------------------------------------
(* Properties of a failing back *)

\* C28 as stated: at every input state, when the back command returns an
\* error the player's Notes, Variables, log and history are as they were
\* before the call, so the latest history entry is still the one of the
\* prompt the loop is taking input for.
C28_BackAtomic ==
    pc = "input" =>
        LET b == RuntimeBack(player)
        IN  ~b.ok => /\ b.player.notes = player.notes
                     /\ b.player.variables = player.variables
                     /\ b.player.log = player.log
                     /\ b.player.history = player.history
                     /\ latest_entry(b.player).ok
                     /\ latest_entry(b.player).val.path = next_prompt


\* C29: no back operation removes or undoes a history entry whose locked
\* flag is set, also when the entry is met while a redirect chain is being
\* unwound: over every step a locked entry keeps its place in the history,
\* unless the step is a push onto a full history, which evicts the oldest
\* entry and moves the others one place down.
C29_LockedLeavesOnlyByEviction ==
    [][\A i \in 1..Len(player.history) :
          player.history[i].locked =>
              \/ /\ i <= Len(player'.history)
                 /\ player'.history[i] = player.history[i]
              \/ /\ last'.op # "back"
                 /\ last'.pushed
                 /\ last'.evict
                 /\ Len(player.history) = HistorySize
                 /\ (i = 1 \/ player'.history[i - 1] = player.history[i])]_vars

\* a back that unwound a redirect-marked entry and then failed at a locked one
C29_Witness ==
    /\ last.op = "back"
    /\ ~last.ok
    /\ last.popped > 0
    /\ Len(player.history) > 0
    /\ player.history[Len(player.history)].locked


----------------------------------------------------------------------------
(* Termination of the automatic jumps *)

\* a redirect the model does not follow because a variable value would
\* grow beyond MaxValueLen
RedirectCut ==
    /\ pc = "visit"
    /\ LET Cut(v) ==
               /\ v.ok
               /\ v.model.kind = "Redirect"
               /\ ~WithinBounds(RedirectIteration(player).player)
       IN  Cut(Visit(player))

\* the loop has left the automatic jumps: it takes input at a Response or
\* Input prompt, has ended the game or has returned an error
JumpsOver == pc \in {"input", "done", "crashed"}

\* C30 as stated: with content that passes validation, whenever the loop is
\* about to visit a prompt it reaches, after finitely many automatic
\* Redirect jumps, the input of a Response or Input prompt, the end of the
\* game or an error.
C30_RedirectsFinite ==
    validate_all => ((pc = "visit") ~> (JumpsOver \/ RedirectCut))


----------------------------------------------------------------------------
(* Properties of what a back removes *)

\* the i-th entry popped by a back from history h, the latest being the first
PoppedAt(h, i) == h[Len(h) - i + 1]

\* the model of the prompt the latest entry of player p names
LatestModel(p) ==
    PromptModelOf(PromptGet(Latest(p).path).val, TextContextOf(p))

\* C31 as stated: every successful back pops a run of redirect-marked entries
\* and then exactly one entry that is not redirect-marked, the last one
\* popped, and leaves a history whose latest entry names a prompt at which
\* the player chose or typed, never a Redirect prompt.
C31_BackEndsAtInputPrompt ==
    [][(pc = "input" /\ last'.op = "back" /\ last'.ok) =>
          LET h == player.history
              n == last'.popped
          IN  /\ n >= 1
              /\ n <= Len(h)
              /\ player'.history = SubSeq(h, 1, Len(h) - n)
              /\ \A i \in 1..(n - 1) : PoppedAt(h, i).redirect
              /\ ~PoppedAt(h, n).redirect
              /\ Len(player'.history) >= 1
              /\ PromptGet(Latest(player').path).ok
              /\ LatestModel(player').ok
              /\ LatestModel(player').val.kind \in {"Response", "Input"}]_vars


----------------------------------------------------------------------------
(* Properties of the numbers a Response prompt shows *)

\* C32: while the loop takes input at a Response prompt, every response line
\* printed for the visit carries a number k that is a place in the list of
\* usable choices computed for the visit; the line is the response of the
\* k-th usable choice, typing the numeral of k selects k, and the choice the
\* loop applies for the selection k is that same choice, whose gate
\* (can_player_use) was true in the context the prompt was shown with.  A
\* choice taken at the prompt is applied from that list.
C32_PrintedNumberSelects ==
    /\ []((pc = "input" /\ model.kind = "Response") =>
            LET d == display(VisitedPrompt, choices, text_context)
            IN  /\ d.ok
                /\ \A j \in 1..Len(d.val) :
                      LET k == d.val[j].index
                      IN  /\ k \in 1..Len(choices)
                          /\ IsSome(VisitedPrompt.choices[choices[k]].response)
                          /\ TextGet(Unwrap(VisitedPrompt.choices[choices[k]].response),
                                     text_context) = Ok(d.val[j].text)
                          /\ handle_line(ToDecimal(k), InputContext)
                                 = LineResult("Choice", k)
                          /\ ChoiceAt(k) = VisitedPrompt.choices[choices[k]]
                /\ \A k \in 1..Len(choices) :
                      can_player_use(ChoiceAt(k), text_context.notes, text_context)
                          = Ok(TRUE))
    /\ [][(pc = "input" /\ model.kind = "Response" /\ last'.op = "choose") =>
             \E k \in 1..Len(choices) :
                 /\ can_player_use(VisitedPrompt.choices[choices[k]],
                                   text_context.notes, text_context) = Ok(TRUE)
                 /\ player' = choose_full(player, VisitedPrompt.choices[choices[k]],
                                          None, model, text_context).player]_vars

\* the player typed a line the loop rejected at the hub, where an unusable
\* choice makes the numbers shown differ from the places in the prompt
C32_Witness ==
    /\ pc = "input" /\ model.kind = "Response" /\ last.op = "reject"
    /\ \E k \in 1..Len(choices) : choices[k] # k


----------------------------------------------------------------------------
(* Properties of a failing choose *)

\* C33 as stated: while the loop takes input, for every usable choice and
\* every input, a Player::choose that fails leaves Notes, Variables, the
\* unlocked info pages and the history of the player as they were.
C33_ChooseAtomic ==
    pc = "input" =>
        \A i \in 1..Len(choices) : \A input \in InputsOf(model) :
            LET c == choose(player, ChoiceAt(i), input, model, text_context)
            IN  ~c.ok => /\ c.player.notes = player.notes
                         /\ c.player.variables = player.variables
                         /\ c.player.info_pages = player.info_pages
                         /\ c.player.history = player.history


----------------------------------------------------------------------------
(* Properties of the log lines a back removes *)

\* the number of entries of history h that recorded a log line
RECURSIVE LoggedEntries(_)
LoggedEntries(h) ==
    IF Len(h) = 0 THEN 0
    ELSE LoggedEntries(Tail(h)) + (IF Head(h).log THEN 1 ELSE 0)

\* C34 as stated: while the loop takes input, for every usable choice and
\* every input handled from there, a back that follows pops the log line of
\* the entry it reverses and no other.  After a choice that pushed an entry,
\* a back of that one entry leaves the log as it was before the choice; after
\* a choice that pushed no entry but appended a log line, that line is still
\* the last of the log after a back, which reverses an older entry; and the
\* log never holds fewer lines than the history holds entries that recorded
\* one.
C34_BackPopsOwnLogLine ==
    /\ LoggedEntries(player.history) <= Len(player.log)
    /\ pc = "input" =>
        \A i \in 1..Len(choices) : \A input \in InputsOf(model) :
            LET c == HandleInput(i, input)
                b == back(c.player)
                appended == Len(c.player.log) = Len(player.log) + 1
            IN  (c.ok /\ b.ok) =>
                    /\ (c.pushed /\ b.popped = 1) => b.player.log = player.log
                    /\ (~c.pushed /\ appended) =>
                           /\ Len(b.player.log) >= 1
                           /\ b.player.log[Len(b.player.log)]
                                  = c.player.log[Len(c.player.log)]


----------------------------------------------------------------------------
(* Properties of what a back leaves alone *)

\* the info page names of a choice, resolved with context ctx
PagesOf(choice, ctx) ==
    IF IsSome(choice.info_pages)
    THEN {fill(Unwrap(choice.info_pages)[k], ctx).val :
              k \in 1..Len(Unwrap(choice.info_pages))}
    ELSE {}

\* C35: a back command, failed or not, leaves the unlocked info pages, the
\* language, the enabled channels and the began flag of the player as they
\* were.  While the loop takes input, for every usable choice and input: the
\* pages a choice that pushed an entry unlocked are still unlocked after the
\* back that reverses it, and a choice whose pages are all unlocked already
\* leaves the set of unlocked pages as it was.
C35_BackKeepsInfoPages ==
    /\ [][(pc = "input" /\ last'.op = "back") =>
             /\ player'.info_pages = player.info_pages
             /\ player'.lang = player.lang
             /\ player'.channels = player.channels
             /\ player'.began = player.began]_vars
    /\ [](pc = "input" =>
            \A i \in 1..Len(choices) : \A input \in InputsOf(model) :
                LET c == HandleInput(i, input)
                    b == back(c.player)
                    pages == PagesOf(ChoiceAt(i), text_context)
                IN  (c.ok /\ c.pushed) =>
                        /\ pages \subseteq c.player.info_pages
                        /\ b.player.info_pages = c.player.info_pages
                        /\ b.player.lang = c.player.lang
                        /\ b.player.channels = c.player.channels
                        /\ b.player.began = c.player.began
                        /\ pages \subseteq player.info_pages
                               => c.player.info_pages = player.info_pages)

\* a back has reversed the choice of the input prompt, which unlocked the
\* page b: the player is at the prompt again and the page is still unlocked
C35_Witness ==
    /\ last.op = "back" /\ last.ok
    /\ Len(player.history) >= 1
    /\ Latest(player).path.prompt = S_i
    /\ S_b \in player.info_pages


----------------------------------------------------------------------------
(* C36 *)

\* the script files invoked by the script pass of fill on the content, in
\* order, up to and including the first one that fails
RECURSIVE ScriptCallsLoop(_, _, _, _, _)
ScriptCallsLoop(content, i, ctx, calls, last_opener) ==
    IF i > Len(content) THEN calls
    ELSE IF content[i] = "("
    THEN ScriptCallsLoop(content, i + 1, ctx, calls, i)
    ELSE IF content[i] = ")" /\ last_opener # 0
    THEN LET Called(name, f) ==
                 LET invoked == IF file_components(name).file \in ScriptFiles
                                THEN Append(calls, name) ELSE calls
                 IN  IF ~f.ok THEN invoked
                     ELSE ScriptCallsLoop(content, i + 1, ctx, invoked, 0)
         IN  Called(SubSeq(content, last_opener + 1, i - 1),
                    ScriptsGet(SubSeq(content, last_opener + 1, i - 1), ctx))
    ELSE IF content[i] = ")"
    THEN ScriptCallsLoop(content, i + 1, ctx, calls, 0)
    ELSE ScriptCallsLoop(content, i + 1, ctx, calls, last_opener)

ScriptCalls(content, ctx) ==
    ScriptCallsLoop(lang_file_content(content, lang_file(ctx.lang)), 1, ctx, <<>>, 0)

PlainText(s) == \A i \in 1..Len(s) : s[i] \notin {"(", ")", "<", ">"}

\* the content is plain text around one `<a>` span that starts at place k
OneSpanAt(str, k) ==
    /\ k + 2 <= Len(str)
    /\ SubSeq(str, k, k + 2) = <<"<", "a", ">">>
    /\ PlainText(SubSeq(str, 1, k - 1))
    /\ PlainText(SubSeq(str, k + 3, Len(str)))

IsPrefix(s, t) == Len(s) <= Len(t) /\ SubSeq(t, 1, Len(s)) = s

\* fill puts the value of a, whatever characters it holds, in the place of
\* the one `<a>` span of a content that is plain text otherwise
SubstitutedVerbatim ==
    LET ctx == text_context
        str == template_string
        value == UnwrapOr(MapGet(ctx.variables, S_a), DEFAULT_VALUE)
    IN  \A k \in 1..Len(str) :
            OneSpanAt(str, k)
            => Resolved.result
               = Ok(SubSeq(str, 1, k - 1) \o value \o SubSeq(str, k + 3, Len(str)))

\* C36 as stated: the text put in place of a `<name>` span is never scanned
\* again, a value holding `(`, `)`, `<` or `>` appears verbatim in the result
\* of fill, and the scripts fill invokes on a content are the same for any two
\* values of the variable.
C36_SameScriptsForAnyValue ==
    FillApplied =>
        /\ SubstitutedVerbatim
        /\ \A other \in Contexts :
              (/\ other.lang = text_context.lang
               /\ other.notes = text_context.notes
               /\ DOMAIN other.variables = DOMAIN text_context.variables)
              => ScriptCalls(template_string, other)
                 = ScriptCalls(template_string, text_context)

\* C36 amended: the text put in place of a `<name>` span is never scanned
\* again and a value holding `(`, `)`, `<` or `>` appears verbatim in the
\* result of fill. For any two values of the variables the scripts fill invokes
\* on a content are the same up to the first script that fails to evaluate:
\* one sequence of calls is a prefix of the other, and they are equal when the
\* script pass succeeds under both.
C36_SubstitutedNeverRescanned ==
    FillApplied =>
        /\ SubstitutedVerbatim
        /\ \A other \in Contexts :
              (other.lang = text_context.lang /\ other.notes = text_context.notes)
              => LET mine == ScriptCalls(template_string, text_context)
                     theirs == ScriptCalls(template_string, other)
                     ScriptPassOf(c) == Scripted(template_string, c)
                 IN  /\ IsPrefix(mine, theirs) \/ IsPrefix(theirs, mine)
                     /\ (ScriptPassOf(text_context).ok /\ ScriptPassOf(other).ok)
                        => mine = theirs

\* C36 witness: fill of `a<a>` against a context in which a is `(one)<a>` came
\* back as `a(one)<a>`
C36_Witness ==
    /\ FillApplied
    /\ template_string = <<"a", "<", "a", ">">>
    /\ MapGet(text_context.variables, S_a) = Some(V_spans)
    /\ Resolved.result = Ok(<<"a">> \o V_spans)

----------------------------------------------------------------------------
(* C37 *)

\* after_choice was applied on its own, and what it found
PresenceApplied == IsSome(presence)
PresenceFound == Unwrap(presence)

\* C37 as stated: once after_choice has succeeded, the state get_state gave
\* is, in Id mode, the path of the latest entry; in Custom mode it is the
\* choice's filled drp detail when the choice has one; when the choice has no
\* drp it is the log line the choice appended if fallback is set and the choice
\* has a log, and nothing otherwise.
C37_GetStateAsDocumented ==
    (PresenceApplied /\ PresenceFound.ok) =>
        LET choice == choices[1]
            ctx == TextContextOf(player)
            log_line == IF IsSome(choice.log)
                        THEN Some(player.log[Len(player.log)]) ELSE None
        IN  IF drp_mode.kind = "Id"
            THEN PresenceFound.state
                 = Some(PathToString(latest_entry(player).val.path))
            ELSE IF IsSome(choice.drp)
            THEN PresenceFound.state = Some(fill(Unwrap(choice.drp), ctx).val)
            ELSE PresenceFound.state
                 = (IF drp_mode.fallback THEN log_line ELSE None)

----------------------------------------------------------------------------
(* C38 *)

\* C38: the game shuts down on a quit signal only if the input event right
\* before it was a quit signal too (the loop stood at the input, armed by that
\* signal); a quit signal after anything else only arms the controller and
\* retries the input with the player as it was; every line read at the input,
\* accepted or rejected, leaves the controller disarmed; so the controller is
\* armed only right after a quit signal.
C38_QuitNeedsTwoSignals ==
    [][/\ pc' = "shutdown" => (pc = "input" /\ last.op = "quit" /\ quit)
       /\ (pc = "input" /\ last'.op = "quit")
          => (last.op # "quit" /\ ~quit /\ quit' /\ pc' = "input"
              /\ player' = player)
       /\ (pc = "input" /\ last'.op \notin {"quit", "shutdown"}) => ~quit'
       /\ quit' => last'.op \in {"quit", "shutdown"}]_vars

\* C38 witness: the game was shut down by the second of two quit signals in a
\* row
C38_Witness ==
    /\ pc = "shutdown"
    /\ last.op = "shutdown"
    /\ quit

====
